---- MODULE Spec2Model ----
(***************************************************************************)
(* A model of the TinyCPP front end: Lexer, Parser, the semantic checker   *)
(* embedded in the AST, the IR generator and the driver (Compiler, main).  *)
(*                                                                         *)
(* A char is a one-character string and a std::string is a sequence of    *)
(* chars.  Str joins such a sequence into a TLA+ string; it is used where  *)
(* the code compares a std::string with a literal, builds a message, or    *)
(* stores an operand of an instruction.                                    *)
(***************************************************************************)
EXTENDS Integers, Sequences, FiniteSets, TLC

VARIABLES
    sourceCode,   \* Compiler::compile: the text read from the input file
    dangling,     \* what the build makes of parseStatement's dangling read:
                  \* "intact" (the bytes are still there), "clobbered" (they
                  \* are not) or "trapped" (the read is fatal)
    lexer,        \* the Lexer: [source, index, line, column]
    tokens,       \* Compiler::compile: the vector tokenize() returned
    parser,       \* the Parser: [tokens, index]
    ast,          \* the statement parseStatement() built (nullptr before)
    irGenerator,  \* the IRGenerator: [code, tempVarCount]
    ir,           \* Compiler::compile: the vector generateCode() returned
    outFile,      \* the lines written to the output file
    thrown,       \* the exception thrown: [what, from], what = "" when none
    cerr,         \* what main wrote to std::cerr
    exitCode,     \* what main returned (-1 while it has not)
    pc            \* where the run is

vars == <<sourceCode, dangling, lexer, tokens, parser, ast, irGenerator, ir,
          outFile, thrown, cerr, exitCode, pc>>

\* the char '\0': what currentChar()/peekChar() return past the end
NUL == "\\0"

RECURSIVE Str(_)
Str(s) == IF s = <<>> THEN "" ELSE Head(s) \o Str(Tail(s))

(***************************************************************************)
(* <cctype> predicates, "C" locale                                         *)
(***************************************************************************)
isdigit(c) == c \in {"0", "1", "2", "3", "4", "5", "6", "7", "8", "9"}

isalpha(c) ==
    c \in {"a", "b", "c", "d", "e", "f", "g", "h", "i", "j", "k", "l", "m",
           "n", "o", "p", "q", "r", "s", "t", "u", "v", "w", "x", "y", "z",
           "A", "B", "C", "D", "E", "F", "G", "H", "I", "J", "K", "L", "M",
           "N", "O", "P", "Q", "R", "S", "T", "U", "V", "W", "X", "Y", "Z"}

isalnum(c) == isalpha(c) \/ isdigit(c)

isspace(c) == c \in {" ", "\t", "\n", "\r", "\f"}

(***************************************************************************)
(* Token.hpp                                                               *)
(***************************************************************************)
Token(type, value, line, column) ==
    [type |-> type, value |-> value, line |-> line, column |-> column]

tokenToString(t) ==
    "Token(" \o t.type \o ", \"" \o Str(t.value) \o "\", Line: " \o
    ToString(t.line) \o ", Column: " \o ToString(t.column) \o ")"

(***************************************************************************)
(* Lexer.  A lexer state L is [source, index, line, column].               *)
(***************************************************************************)
LexerNew == [source |-> <<>>, index |-> 0, line |-> 1, column |-> 1]

setSource(L, src) == [source |-> src, index |-> 0, line |-> 1, column |-> 1]

currentChar(L) ==
    IF L.index < Len(L.source) THEN L.source[L.index + 1] ELSE NUL

peekChar(L, offset) ==
    LET peekIndex == L.index + offset
    IN  IF peekIndex < Len(L.source) THEN L.source[peekIndex + 1] ELSE NUL

advance(L) ==
    IF L.index < Len(L.source)
    THEN IF L.source[L.index + 1] = "\n"
         THEN [L EXCEPT !.line = @ + 1, !.column = 1, !.index = @ + 1]
         ELSE [L EXCEPT !.column = @ + 1, !.index = @ + 1]
    ELSE L

RECURSIVE skipWhitespace(_)
skipWhitespace(L) ==
    IF isspace(currentChar(L)) THEN skipWhitespace(advance(L)) ELSE L

\* while (currentChar() != '\n' && currentChar() != '\0') advance();
RECURSIVE skipLineComment(_)
skipLineComment(L) ==
    IF currentChar(L) # "\n" /\ currentChar(L) # NUL
    THEN skipLineComment(advance(L))
    ELSE L

\* while (!(cur == '*' && peek == '/')) { advance(); if (cur == '\0') break; }
RECURSIVE skipBlockComment(_)
skipBlockComment(L) ==
    IF ~(currentChar(L) = "*" /\ peekChar(L, 1) = "/")
    THEN LET L1 == advance(L)
         IN  IF currentChar(L1) = NUL THEN L1 ELSE skipBlockComment(L1)
    ELSE L

skipComment(L) ==
    IF currentChar(L) = "/" /\ peekChar(L, 1) = "/"
    THEN advance(skipLineComment(L))
    ELSE IF currentChar(L) = "/" /\ peekChar(L, 1) = "*"
         THEN advance(advance(skipBlockComment(advance(advance(L)))))
         ELSE L

\* the result of a token-producing method: the token, the lexer state it
\* leaves, and the message of the exception it threw ("" when none)
LexResult(token, L) == [token |-> token, L |-> L, err |-> ""]

LexThrow(msg, L) ==
    [token |-> Token("Unknown", <<>>, 0, 0), L |-> L, err |-> msg]

RECURSIVE numberLoop(_, _, _)
numberLoop(L, value, isFloatingPoint) ==
    IF isdigit(currentChar(L)) \/ currentChar(L) = "."
    THEN IF currentChar(L) = "." /\ isFloatingPoint
         THEN [L |-> L, value |-> value, isFloatingPoint |-> isFloatingPoint]
         ELSE numberLoop(advance(L), Append(value, currentChar(L)),
                         isFloatingPoint \/ currentChar(L) = ".")
    ELSE [L |-> L, value |-> value, isFloatingPoint |-> isFloatingPoint]

number(L) ==
    LET tokenColumn == L.column
        r == numberLoop(L, <<>>, FALSE)
    IN  IF r.isFloatingPoint
        THEN LexResult(Token("FloatingPointLiteral", r.value, r.L.line,
                             tokenColumn), r.L)
        ELSE LexResult(Token("NumberLiteral", r.value, r.L.line,
                             tokenColumn), r.L)

\* the static keywords map of identifierOrKeyword
keywords ==
    [k \in {"true", "false", "nullptr", "int", "return", "if", "else", "for",
            "while", "float", "char", "std::string"} |->
        IF k \in {"true", "false"} THEN "BooleanLiteral"
        ELSE IF k = "nullptr" THEN "NullLiteral"
        ELSE "Keyword"]

RECURSIVE identifierLoop(_, _)
identifierLoop(L, value) ==
    IF isalnum(currentChar(L)) \/ currentChar(L) = "_"
    THEN LET v1 == Append(value, currentChar(L))
             L1 == advance(L)
         IN  IF currentChar(L1) = ":" /\ peekChar(L1, 1) = ":"
             THEN identifierLoop(advance(advance(L1)), v1 \o <<":", ":">>)
             ELSE identifierLoop(L1, v1)
    ELSE [L |-> L, value |-> value]

identifierOrKeyword(L) ==
    LET tokenColumn == L.column
        r == identifierLoop(L, <<>>)
    IN  IF Str(r.value) \in DOMAIN keywords
        THEN LexResult(Token(keywords[Str(r.value)], r.value, r.L.line,
                             tokenColumn), r.L)
        ELSE LexResult(Token("Identifier", r.value, r.L.line, tokenColumn),
                       r.L)

RECURSIVE stringLoop(_, _)
stringLoop(L, value) ==
    IF currentChar(L) # "\"" /\ currentChar(L) # NUL
    THEN IF currentChar(L) = "\\" /\ peekChar(L, 1) = "\""
         THEN LET L1 == advance(L)
              IN  stringLoop(advance(L1),
                             value \o <<currentChar(L), currentChar(L1)>>)
         ELSE stringLoop(advance(L), Append(value, currentChar(L)))
    ELSE [L |-> L, value |-> value]

stringLiteral(L) ==
    LET tokenColumn == L.column
        r == stringLoop(advance(L), <<currentChar(L)>>)
        \* value += currentChar(): the closing quote, or '\0' at the end
        value == Append(r.value, currentChar(r.L))
        L2 == advance(r.L)
    IN  LexResult(Token("StringLiteral", value, L2.line, tokenColumn), L2)

characterLiteral(L) ==
    LET tokenColumn == L.column
        L1 == advance(L)
        escaped == currentChar(L1) = "\\" /\ peekChar(L1, 1) = "'"
        \* in both branches exactly one char is appended
        value2 == <<currentChar(L), currentChar(L1)>>
        L2 == IF escaped THEN advance(advance(L1)) ELSE advance(L1)
    IN  IF currentChar(L2) # "'"
        THEN LexThrow("Expected closing single quote for character literal",
                      L2)
        ELSE LET L3 == advance(L2)
             IN  LexResult(Token("CharacterLiteral",
                                 Append(value2, currentChar(L2)),
                                 L3.line, tokenColumn), L3)

isOperator(c) ==
    c \in {"+", "-", "*", "/", "%", "=", "<", ">", "!", "&", "|", "^", "~"}

\* the static multiCharOperators map of operatorToken: all map to '='
multiCharOperators == [k \in {"=", "!", "<", ">"} |-> "="]

RECURSIVE operatorLoop(_, _)
operatorLoop(L, value) ==
    IF isOperator(currentChar(L))
    THEN LET v1 == Append(value, currentChar(L))
             L1 == advance(L)
         IN  IF /\ Str(v1) \in DOMAIN multiCharOperators
                /\ currentChar(L1) = multiCharOperators[Str(v1)]
             THEN [L |-> advance(L1), value |-> Append(v1, currentChar(L1))]
             ELSE operatorLoop(L1, v1)
    ELSE [L |-> L, value |-> value]

operatorToken(L) ==
    LET tokenColumn == L.column
        r == operatorLoop(L, <<>>)
    IN  LexResult(Token("Operator", r.value, r.L.line, tokenColumn), r.L)

isSeparatorChar(c) == c \in {";", ",", "(", ")", "{", "}"}

\* a variant of nextToken that leaves an unknown character where it is
nextTokenKeepsUnknown(L0) ==
    LET L == skipComment(skipWhitespace(L0))
        c == currentChar(L)
    IN  IF isdigit(c) THEN number(L)
        ELSE IF isalpha(c) \/ c = "_" THEN identifierOrKeyword(L)
        ELSE IF c = "\"" THEN stringLiteral(L)
        ELSE IF c = "'" THEN characterLiteral(L)
        ELSE IF isOperator(c) THEN operatorToken(L)
        ELSE IF isSeparatorChar(c)
             THEN LexResult(Token("Separator", <<c>>, L.line, L.column),
                            advance(L))
        ELSE IF c = NUL
             THEN LexResult(Token("EndOfFile", <<>>, L.line, L.column), L)
        ELSE LexResult(Token("Unknown", <<c>>, L.line, L.column), L)

nextToken(L0) ==
    LET L == skipComment(skipWhitespace(L0))
        c == currentChar(L)
    IN  IF isdigit(c) THEN number(L)
        ELSE IF isalpha(c) \/ c = "_" THEN identifierOrKeyword(L)
        ELSE IF c = "\"" THEN stringLiteral(L)
        ELSE IF c = "'" THEN characterLiteral(L)
        ELSE IF isOperator(c) THEN operatorToken(L)
        ELSE IF isSeparatorChar(c)
             THEN LexResult(Token("Separator", <<c>>, L.line, L.column),
                            advance(L))
        ELSE IF c = NUL
             THEN LexResult(Token("EndOfFile", <<>>, L.line, L.column), L)
        ELSE LET L1 == advance(L)
             IN  LexResult(Token("Unknown", <<c>>, L1.line, L1.column), L1)

\* while (index < source.size()) { ... }
RECURSIVE tokenizeLoop(_, _)
tokenizeLoop(L, vec) ==
    IF L.index < Len(L.source)
    THEN LET r == nextToken(L)
         IN  IF r.err # ""
             THEN [L |-> r.L, tokens |-> vec, err |-> r.err]
             ELSE LET toks == IF r.token.type # "Unknown"
                              THEN Append(vec, r.token)
                              ELSE vec
                  IN  IF r.token.type = "EndOfFile"
                      THEN [L |-> r.L, tokens |-> toks, err |-> ""]
                      ELSE tokenizeLoop(r.L, toks)
    ELSE [L |-> L, tokens |-> vec, err |-> ""]

tokenize(L) == tokenizeLoop(L, <<>>)

(***************************************************************************)
(* AST.hpp: the node classes.  A null shared_ptr is nullptr.               *)
(***************************************************************************)
nullptr == [kind |-> "nullptr"]

LiteralExpression(value) == [kind |-> "Literal", value |-> value]

VariableExpression(name) == [kind |-> "Variable", name |-> name]

\* toString() of a LiteralExpression and of a VariableExpression
LiteralExpression_toString(expr) == expr.value

VariableExpression_toString(expr) == expr.name

BinaryExpression(left, op, right) ==
    [kind |-> "Binary", left |-> left, op |-> op, right |-> right]

BlockStatement(statements) == [kind |-> "Block", statements |-> statements]

VariableDeclaration(type, name, initializer) ==
    [kind |-> "VariableDeclaration", type |-> type, name |-> name,
     initializer |-> initializer]

AssignmentStatement(name, value) ==
    [kind |-> "Assignment", name |-> name, value |-> value]

ReturnStatement(value) == [kind |-> "Return", value |-> value]

FunctionDeclaration(returnType, name, parameters, body) ==
    [kind |-> "FunctionDeclaration", returnType |-> returnType,
     name |-> name, parameters |-> parameters, body |-> body]

IfStatement(condition, thenBranch, elseBranch) ==
    [kind |-> "If", condition |-> condition, thenBranch |-> thenBranch,
     elseBranch |-> elseBranch]

opToString(op) ==
    CASE op = "Add" -> "+"
      [] op = "Subtract" -> "-"
      [] op = "Multiply" -> "*"
      [] op = "Divide" -> "/"
      [] op = "Modulo" -> "%"
      [] op = "LessThan" -> "<"
      [] op = "GreaterThan" -> ">"
      [] op = "Equal" -> "=="
      [] op = "NotEqual" -> "!="
      [] op = "And" -> "&&"
      [] op = "Or" -> "||"
      [] OTHER -> "?"

(***************************************************************************)
(* Parser.  The token vector is fixed during a parse; an operation takes   *)
(* the vector and the cursor and returns the node built, the cursor it     *)
(* leaves and the message of the exception it threw ("" when none).        *)
(***************************************************************************)
Parsed(node, index) == [err |-> "", node |-> node, index |-> index]

ParseThrow(msg, index) == [err |-> msg, node |-> nullptr, index |-> index]

Parser_currentToken(toks, index) ==
    IF index < Len(toks) THEN toks[index + 1]
    ELSE Token("EndOfFile", <<>>, 0, 0)

Parser_advance(toks, index) == IF index < Len(toks) THEN index + 1 ELSE index

match(toks, index, type) == Parser_currentToken(toks, index).type = type

\* match(TokenType::T) && currentToken().getValue() == "v"
matchValue(toks, index, type, v) ==
    /\ match(toks, index, type)
    /\ Str(Parser_currentToken(toks, index).value) = v

\* a variant of getPrecedence with < and > below + and -
getPrecedenceRelationalBelowAdditive(token) ==
    IF token.type = "Operator"
    THEN LET value == Str(token.value)
         IN  IF value \in {"+", "-"} THEN 10
             ELSE IF value \in {"*", "/", "%"} THEN 20
             ELSE IF value \in {"==", "!="} THEN 5
             ELSE IF value \in {"&&", "||"} THEN 3
             ELSE IF value \in {"<", ">", "<=", ">="} THEN 7
             ELSE -1
    ELSE -1

getPrecedence(token) ==
    IF token.type = "Operator"
    THEN LET value == Str(token.value)
         IN  IF value \in {"+", "-"} THEN 10
             ELSE IF value \in {"*", "/", "%"} THEN 20
             ELSE IF value \in {"==", "!="} THEN 5
             ELSE IF value \in {"&&", "||"} THEN 3
             ELSE IF value \in {"<", ">", "<=", ">="} THEN 15
             ELSE -1
    ELSE -1

\* a variant of tokenToBinaryOp that knows <= and >=
tokenToBinaryOpWithRelationalEq(token) ==
    LET value == Str(token.value)
    IN  CASE value = "+" -> "Add"
          [] value = "-" -> "Subtract"
          [] value = "*" -> "Multiply"
          [] value = "/" -> "Divide"
          [] value = "%" -> "Modulo"
          [] value = "<" -> "LessThan"
          [] value = ">" -> "GreaterThan"
          [] value = "<=" -> "LessEqual"
          [] value = ">=" -> "GreaterEqual"
          [] value = "==" -> "Equal"
          [] value = "!=" -> "NotEqual"
          [] value = "&&" -> "And"
          [] value = "||" -> "Or"
          [] OTHER -> ""

\* the BinaryOp, or "" where the code throws "Unknown binary operator"
tokenToBinaryOp(token) ==
    LET value == Str(token.value)
    IN  CASE value = "+" -> "Add"
          [] value = "-" -> "Subtract"
          [] value = "*" -> "Multiply"
          [] value = "/" -> "Divide"
          [] value = "%" -> "Modulo"
          [] value = "<" -> "LessThan"
          [] value = ">" -> "GreaterThan"
          [] value = "==" -> "Equal"
          [] value = "!=" -> "NotEqual"
          [] value = "&&" -> "And"
          [] value = "||" -> "Or"
          [] OTHER -> ""

parsePrimaryExpression(toks, index) ==
    LET t == Parser_currentToken(toks, index)
    IN  IF t.type \in {"NumberLiteral", "FloatingPointLiteral",
                       "StringLiteral", "CharacterLiteral"}
        THEN Parsed(LiteralExpression(t.value), Parser_advance(toks, index))
        ELSE IF t.type = "Identifier"
        THEN Parsed(VariableExpression(t.value), Parser_advance(toks, index))
        ELSE ParseThrow("Unexpected token in expression: " \o
                        tokenToString(t), index)

RECURSIVE parseBinaryExpression(_, _, _)
RECURSIVE parseBinaryLoop(_, _, _, _)

\* the while (true) loop of parseBinaryExpression
parseBinaryLoop(toks, index, precedence, left) ==
    LET t == Parser_currentToken(toks, index)
        tokenPrecedence == getPrecedence(t)
    IN  IF tokenPrecedence < precedence THEN Parsed(left, index)
        ELSE IF tokenToBinaryOp(t) = ""
        THEN ParseThrow("Unknown binary operator: " \o tokenToString(t),
                        index)
        ELSE LET r == parseBinaryExpression(toks, Parser_advance(toks, index),
                                            tokenPrecedence + 1)
             IN  IF r.err # "" THEN r
                 ELSE parseBinaryLoop(toks, r.index, precedence,
                          BinaryExpression(left, tokenToBinaryOp(t), r.node))

parseBinaryExpression(toks, index, precedence) ==
    LET l == parsePrimaryExpression(toks, index)
    IN  IF l.err # "" THEN l
        ELSE parseBinaryLoop(toks, l.index, precedence, l.node)

parseExpression(toks, index) == parseBinaryExpression(toks, index, 0)

parseReturn(toks, index) ==
    LET r == parseExpression(toks, Parser_advance(toks, index))
    IN  IF r.err # "" THEN r
        ELSE IF ~matchValue(toks, r.index, "Separator", ";")
        THEN ParseThrow("Expected ';' after return statement", r.index)
        ELSE Parsed(ReturnStatement(r.node), Parser_advance(toks, r.index))

parseAssignmentOrFunctionCall(toks, index) ==
    LET name == Parser_currentToken(toks, index).value
        i1 == Parser_advance(toks, index)
    IN  IF matchValue(toks, i1, "Operator", "=")
        THEN LET r == parseExpression(toks, Parser_advance(toks, i1))
             IN  IF r.err # "" THEN r
                 ELSE IF ~matchValue(toks, r.index, "Separator", ";")
                 THEN ParseThrow("Expected ';' after assignment", r.index)
                 ELSE Parsed(AssignmentStatement(name, r.node),
                             Parser_advance(toks, r.index))
        ELSE IF matchValue(toks, i1, "Separator", "(")
        THEN ParseThrow("Function calls not yet supported.", i1)
        ELSE ParseThrow("Unexpected token after identifier: " \o
                        tokenToString(Parser_currentToken(toks, i1)), i1)

\* what a read through the dangling reference of parseStatement yields when
\* the destroyed string's bytes are no longer there: no keyword
Clobbered == ""

\* the read is caught by an instrumented build, which kills the process
Trapped == "stack-use-after-scope"

RECURSIVE parseStatement(_, _)
RECURSIVE parseStatements(_, _, _)
RECURSIVE parseFunctionDeclaration(_, _, _, _)

\* while (!match(Separator) || value != "}") push_back(parseStatement());
\* the loop of parseBlockStatement and of the body in parseFunctionDeclaration;
\* node is the vector of statements
parseStatements(toks, index, statements) ==
    IF ~matchValue(toks, index, "Separator", "}")
    THEN LET r == parseStatement(toks, index)
         IN  IF r.err # "" THEN r
             ELSE parseStatements(toks, r.index, Append(statements, r.node))
    ELSE Parsed(statements, index)

parseBlockStatement(toks, index) ==
    LET r == parseStatements(toks, Parser_advance(toks, index), <<>>)
    IN  IF r.err # "" THEN r
        ELSE Parsed(BlockStatement(r.node), Parser_advance(toks, r.index))

parseIfStatement(toks, index) ==
    LET i1 == Parser_advance(toks, index)
    IN  IF ~matchValue(toks, i1, "Separator", "(")
        THEN ParseThrow("Expected '(' after 'if'", i1)
        ELSE
        LET c == parseExpression(toks, Parser_advance(toks, i1))
        IN  IF c.err # "" THEN c
            ELSE IF ~matchValue(toks, c.index, "Separator", ")")
            THEN ParseThrow("Expected ')' after 'if' condition", c.index)
            ELSE
            LET t == parseStatement(toks, Parser_advance(toks, c.index))
            IN  IF t.err # "" THEN t
                ELSE IF matchValue(toks, t.index, "Keyword", "else")
                THEN LET e == parseStatement(toks,
                                             Parser_advance(toks, t.index))
                     IN  IF e.err # "" THEN e
                         ELSE Parsed(IfStatement(c.node, t.node, e.node),
                                     e.index)
                ELSE Parsed(IfStatement(c.node, t.node, nullptr), t.index)

\* the parameter loop of parseFunctionDeclaration; node is the vector
RECURSIVE parseParameters(_, _, _)
parseParameters(toks, index, parameters) ==
    IF ~matchValue(toks, index, "Separator", ")")
    THEN IF match(toks, index, "Identifier")
         THEN LET paramType == Parser_currentToken(toks, index).value
                  i1 == Parser_advance(toks, index)
              IN  IF ~match(toks, i1, "Identifier")
                  THEN ParseThrow("Expected parameter name after type in function declaration",
                                  i1)
                  ELSE
                  LET paramName == Parser_currentToken(toks, i1).value
                      i2 == Parser_advance(toks, i1)
                      ps == Append(parameters,
                                   paramType \o <<" ">> \o paramName)
                  IN  IF matchValue(toks, i2, "Separator", ",")
                      THEN parseParameters(toks, Parser_advance(toks, i2), ps)
                      ELSE Parsed(ps, i2)
         ELSE ParseThrow("Expected parameter type in function declaration",
                         index)
    ELSE Parsed(parameters, index)

parseFunctionDeclaration(toks, index, returnType, name) ==
    LET p == parseParameters(toks, Parser_advance(toks, index), <<>>)
    IN  IF p.err # "" THEN p
        ELSE IF ~matchValue(toks, p.index, "Separator", ")")
        THEN ParseThrow("Expected ')' after function parameters", p.index)
        ELSE
        LET i1 == Parser_advance(toks, p.index)
        IN  IF ~matchValue(toks, i1, "Separator", "{")
            THEN ParseThrow("Expected '{' at the beginning of function body",
                            i1)
            ELSE
            LET b == parseStatements(toks, Parser_advance(toks, i1), <<>>)
            IN  IF b.err # "" THEN b
                ELSE Parsed(FunctionDeclaration(returnType, name, p.node,
                                                b.node),
                            Parser_advance(toks, b.index))

parseVariableDeclaration(toks, index) ==
    LET type == Parser_currentToken(toks, index).value
        i1 == Parser_advance(toks, index)
    IN  IF ~match(toks, i1, "Identifier")
        THEN ParseThrow("Expected identifier after type in variable declaration",
                        i1)
        ELSE
        LET name == Parser_currentToken(toks, i1).value
            i2 == Parser_advance(toks, i1)
        IN  IF matchValue(toks, i2, "Separator", "(")
            THEN parseFunctionDeclaration(toks, i2, type, name)
            ELSE
            LET hasInit == matchValue(toks, i2, "Operator", "=")
                e == IF hasInit
                     THEN parseExpression(toks, Parser_advance(toks, i2))
                     ELSE Parsed(nullptr, i2)
            IN  IF e.err # "" THEN e
                ELSE IF ~matchValue(toks, e.index, "Separator", ";")
                THEN ParseThrow("Expected ';' after variable declaration",
                                e.index)
                ELSE Parsed(VariableDeclaration(type, name, e.node),
                            Parser_advance(toks, e.index))

parseStatement(toks, index) ==
    LET t == Parser_currentToken(toks, index)
        \* const auto& value = currentToken().getValue(): a reference into
        \* the temporary Token, read after the temporary is destroyed
        value == IF dangling = "intact" THEN Str(t.value) ELSE Clobbered
    IN  IF matchValue(toks, index, "Separator", "{")
        THEN parseBlockStatement(toks, index)
        ELSE IF match(toks, index, "Keyword") /\ dangling = "trapped"
        THEN ParseThrow(Trapped, index)
        ELSE IF match(toks, index, "Keyword") /\
                value \in {"int", "float", "char", "std::string"}
        THEN parseVariableDeclaration(toks, index)
        ELSE IF match(toks, index, "Keyword") /\ value = "return"
        THEN parseReturn(toks, index)
        ELSE IF match(toks, index, "Keyword") /\ value = "if"
        THEN parseIfStatement(toks, index)
        ELSE IF ~match(toks, index, "Keyword") /\
                match(toks, index, "Identifier")
        THEN parseAssignmentOrFunctionCall(toks, index)
        ELSE ParseThrow("Unexpected token: " \o tokenToString(t), index)

(***************************************************************************)
(* SymbolTable.hpp: symbols is a function from names to type names         *)
(***************************************************************************)
SymbolTableNew == [n \in {} |-> ""]

declareVariable(symbols, name, type) ==
    IF name \in DOMAIN symbols
    THEN [err |-> "Variable '" \o name \o "' is already declared",
          symbols |-> symbols]
    ELSE [err |-> "",
          symbols |-> [n \in DOMAIN symbols \cup {name} |->
                          IF n = name THEN type ELSE symbols[n]]]

lookupVariable(symbols, name) ==
    IF name \notin DOMAIN symbols
    THEN [err |-> "Variable '" \o name \o "' is not declared", type |-> ""]
    ELSE [err |-> "", type |-> symbols[name]]

(***************************************************************************)
(* AST.hpp: getType and checkSemantics                                     *)
(***************************************************************************)
isCharacterLiteral(value) ==
    Len(value) = 3 /\ value[1] = "'" /\ value[Len(value)] = "'"

isStringLiteral(value) == value[1] = "\"" /\ value[Len(value)] = "\""

isFloatingPointLiteral(value) == \E i \in 1..Len(value) : value[i] = "."

LiteralExpression_getType(value) ==
    IF isCharacterLiteral(value) THEN "char"
    ELSE IF isStringLiteral(value) THEN "std::string"
    ELSE IF isFloatingPointLiteral(value) THEN "float"
    ELSE "int"

\* a variant of BinaryExpression::getType in which a comparison is a bool
BinaryExpression_getTypeBoolComparison(op, leftType, rightType) ==
    IF op \in {"And", "Or"} THEN [err |-> "", type |-> "bool"]
    ELSE IF (leftType = "int" /\ rightType = "float") \/
            (leftType = "float" /\ rightType = "int")
    THEN [err |-> "", type |-> "float"]
    ELSE IF leftType # rightType
    THEN [err |-> "Type mismatch in binary expression: " \o leftType \o " " \o
                  opToString(op) \o " " \o rightType,
          type |-> ""]
    ELSE IF op \in {"LessThan", "GreaterThan", "Equal", "NotEqual"}
    THEN [err |-> "", type |-> "bool"]
    ELSE [err |-> "", type |-> leftType]

\* BinaryExpression::getType once both operand types are there
BinaryExpression_getType(op, leftType, rightType) ==
    IF op \in {"And", "Or"} THEN [err |-> "", type |-> "bool"]
    ELSE IF (leftType = "int" /\ rightType = "float") \/
            (leftType = "float" /\ rightType = "int")
    THEN [err |-> "", type |-> "float"]
    ELSE IF leftType # rightType
    THEN [err |-> "Type mismatch in binary expression: " \o leftType \o " " \o
                  opToString(op) \o " " \o rightType,
          type |-> ""]
    ELSE [err |-> "", type |-> leftType]

\* [err, type]: the type name, or the message of the exception thrown
RECURSIVE getType(_, _)
getType(expr, symbols) ==
    IF expr.kind = "Literal"
    THEN [err |-> "", type |-> LiteralExpression_getType(expr.value)]
    ELSE IF expr.kind = "Variable"
    THEN lookupVariable(symbols, Str(expr.name))
    ELSE LET l == getType(expr.left, symbols)
         IN  IF l.err # "" THEN l
             ELSE LET r == getType(expr.right, symbols)
                  IN  IF r.err # "" THEN r
                      ELSE BinaryExpression_getType(expr.op, l.type, r.type)

\* the outcome of a checkSemantics call: the message of the exception thrown
\* ("" when none), the symbol table it leaves, and whether the exception met
\* a noexcept function on its way out (std::terminate)
Checked(symbols) == [err |-> "", symbols |-> symbols, terminated |-> FALSE]

CheckThrow(msg, symbols) ==
    [err |-> msg, symbols |-> symbols, terminated |-> FALSE]

\* the promotion and the two rejections of VariableDeclaration::checkSemantics
\* and of AssignmentStatement::checkSemantics: the message thrown, "" when
\* the value may be stored
VariableDeclaration_assign(type, initType0) ==
    LET initType == IF initType0 = "int" /\ type = "float" THEN "float"
                    ELSE initType0
    IN  IF initType0 = "float" /\ type = "int"
        THEN "Cannot assign float to int without explicit cast"
        ELSE IF initType # type
        THEN "Type mismatch: Cannot initialize variable of type '" \o type \o
             "' with value of type '" \o initType \o "'"
        ELSE ""

\* a variant of the assignment rule without the promotion of int to float
AssignmentStatement_assignExact(varType, valueType) ==
    IF valueType = "float" /\ varType = "int"
    THEN "Cannot assign float to int without explicit cast"
    ELSE IF varType # valueType
    THEN "Type mismatch in assignment: Cannot assign " \o valueType \o
         " to " \o varType
    ELSE ""

AssignmentStatement_assign(varType, valueType0) ==
    LET valueType == IF valueType0 = "int" /\ varType = "float" THEN "float"
                     ELSE valueType0
    IN  IF valueType0 = "float" /\ varType = "int"
        THEN "Cannot assign float to int without explicit cast"
        ELSE IF varType # valueType
        THEN "Type mismatch in assignment: Cannot assign " \o valueType \o
             " to " \o varType
        ELSE ""

RECURSIVE checkSemantics(_, _)
RECURSIVE checkStatements(_, _, _)

\* for (const auto& stmt : statements) stmt->checkSemantics(symTable);
checkStatements(statements, k, symbols) ==
    IF k > Len(statements) THEN Checked(symbols)
    ELSE LET c == checkSemantics(statements[k], symbols)
         IN  IF c.err # "" THEN c
             ELSE checkStatements(statements, k + 1, c.symbols)

Expression_checkSemantics(expr, symbols) ==
    IF expr.kind = "Literal" THEN Checked(symbols)
    ELSE IF expr.kind = "Variable"
    THEN LET v == lookupVariable(symbols, Str(expr.name))
         IN  IF v.err # "" THEN CheckThrow(v.err, symbols)
             ELSE Checked(symbols)
    ELSE LET l == checkSemantics(expr.left, symbols)
         IN  IF l.err # "" THEN l ELSE checkSemantics(expr.right, symbols)

VariableDeclaration_checkSemantics(stmt, symbols) ==
    LET type == Str(stmt.type)
        d == declareVariable(symbols, Str(stmt.name), type)
    IN  IF d.err # "" THEN CheckThrow(d.err, symbols)
        ELSE IF stmt.initializer = nullptr THEN Checked(d.symbols)
        ELSE
        LET c == checkSemantics(stmt.initializer, d.symbols)
        IN  IF c.err # "" THEN c
            ELSE
            LET t == getType(stmt.initializer, d.symbols)
            IN  IF t.err # "" THEN CheckThrow(t.err, d.symbols)
                ELSE IF VariableDeclaration_assign(type, t.type) # ""
                THEN CheckThrow(VariableDeclaration_assign(type, t.type),
                                d.symbols)
                ELSE Checked(d.symbols)

AssignmentStatement_checkSemantics(stmt, symbols) ==
    LET c == checkSemantics(stmt.value, symbols)
    IN  IF c.err # "" THEN c
        ELSE
        LET v == lookupVariable(symbols, Str(stmt.name))
        IN  IF v.err # "" THEN CheckThrow(v.err, symbols)
            ELSE
            LET t == getType(stmt.value, symbols)
            IN  IF t.err # "" THEN CheckThrow(t.err, symbols)
                ELSE IF AssignmentStatement_assign(v.type, t.type) # ""
                THEN CheckThrow(AssignmentStatement_assign(v.type, t.type),
                                symbols)
                ELSE Checked(symbols)

ReturnStatement_checkSemantics(stmt, symbols) ==
    IF stmt.value # nullptr THEN checkSemantics(stmt.value, symbols)
    ELSE Checked(symbols)

\* declared noexcept: an exception leaving the body calls std::terminate
FunctionDeclaration_checkSemantics(stmt, symbols) ==
    LET c == checkStatements(stmt.body, 1, symbols)
    IN  IF c.err # "" THEN [c EXCEPT !.terminated = TRUE] ELSE c

IfStatement_checkSemantics(stmt, symbols) ==
    LET c == checkSemantics(stmt.condition, symbols)
    IN  IF c.err # "" THEN c
        ELSE
        LET conditionType == getType(stmt.condition, symbols)
        IN  IF conditionType.err # ""
            THEN CheckThrow(conditionType.err, symbols)
            ELSE IF conditionType.type # "int" /\ conditionType.type # "bool"
            THEN CheckThrow("Condition in 'if' statement must be of type int or bool",
                            symbols)
            ELSE
            LET t == checkSemantics(stmt.thenBranch, symbols)
            IN  IF t.err # "" THEN t
                ELSE IF stmt.elseBranch # nullptr
                THEN checkSemantics(stmt.elseBranch, t.symbols)
                ELSE t

\* a variant of BlockStatement::checkSemantics with a scope of its own: what
\* the block declares is forgotten when the block ends
BlockStatement_checkSemanticsScoped(stmt, symbols) ==
    LET c == checkStatements(stmt.statements, 1, symbols)
    IN  IF c.err # "" THEN c ELSE [c EXCEPT !.symbols = symbols]

BlockStatement_checkSemantics(stmt, symbols) ==
    checkStatements(stmt.statements, 1, symbols)

\* the virtual call node->checkSemantics(symTable)
checkSemantics(node, symbols) ==
    CASE node.kind \in {"Literal", "Variable", "Binary"} ->
            Expression_checkSemantics(node, symbols)
      [] node.kind = "Block" -> BlockStatement_checkSemantics(node, symbols)
      [] node.kind = "VariableDeclaration" ->
            VariableDeclaration_checkSemantics(node, symbols)
      [] node.kind = "Assignment" ->
            AssignmentStatement_checkSemantics(node, symbols)
      [] node.kind = "Return" -> ReturnStatement_checkSemantics(node, symbols)
      [] node.kind = "FunctionDeclaration" ->
            FunctionDeclaration_checkSemantics(node, symbols)
      [] node.kind = "If" -> IfStatement_checkSemantics(node, symbols)

\* Parser::parse: parseStatement, then checkSemantics on a fresh SymbolTable.
\* parseThrew and parseChecked are its two ways out, given what parseStatement
\* (r) and checkSemantics (c) returned.
parseThrew(r) ==
    [err |-> r.err, from |-> "parseStatement", terminated |-> r.err = Trapped,
     node |-> nullptr, index |-> r.index]

parseChecked(r, c) ==
    [err |-> c.err, from |-> IF c.err # "" THEN "checkSemantics" ELSE "",
     terminated |-> c.terminated, node |-> r.node, index |-> r.index]

parseReturned(r) ==
    IF r.err # "" THEN parseThrew(r)
    ELSE parseChecked(r, checkSemantics(r.node, SymbolTableNew))

parse(toks, index) == parseReturned(parseStatement(toks, index))

(***************************************************************************)
(* IRGenerator.  A generator state G is [code, tempVarCount].              *)
(***************************************************************************)
TACInstruction(op, arg1, arg2, result) ==
    [op |-> op, arg1 |-> arg1, arg2 |-> arg2, result |-> result]

IRGeneratorNew == [code |-> <<>>, tempVarCount |-> 0]

emplace_back(G, instruction) == [G EXCEPT !.code = Append(@, instruction)]

\* "t" + std::to_string(tempVarCount++)
getNewTempVar(G) ==
    [name |-> "t" \o ToString(G.tempVarCount),
     G |-> [G EXCEPT !.tempVarCount = @ + 1]]

\* [G, resultVar]; resultVar is the caller's string, empty before the call
RECURSIVE generateExpression(_, _)
generateExpression(expr, G) ==
    IF expr.kind = "Binary"
    THEN LET l == generateExpression(expr.left, G)
             r == generateExpression(expr.right, l.G)
             t == getNewTempVar(r.G)
         IN  [G |-> emplace_back(t.G,
                        TACInstruction(opToString(expr.op), l.resultVar,
                                       r.resultVar, t.name)),
              resultVar |-> t.name]
    ELSE IF expr.kind = "Literal"
    THEN [G |-> G, resultVar |-> Str(expr.value)]
    ELSE IF expr.kind = "Variable"
    THEN [G |-> G, resultVar |-> Str(expr.name)]
    ELSE [G |-> G, resultVar |-> ""]

RECURSIVE generateStatement(_, _)

\* for (const auto& stmt : statements) generateStatement(stmt);
RECURSIVE generateStatements(_, _, _)
generateStatements(statements, k, G) ==
    IF k > Len(statements) THEN G
    ELSE generateStatements(statements, k + 1,
                            generateStatement(statements[k], G))

generateVariableDeclaration(stmt, G) ==
    IF stmt.initializer # nullptr
    THEN LET e == generateExpression(stmt.initializer, G)
         IN  emplace_back(e.G, TACInstruction("MOV", e.resultVar, "",
                                              Str(stmt.name)))
    ELSE G

generateAssignment(stmt, G) ==
    LET e == generateExpression(stmt.value, G)
    IN  emplace_back(e.G, TACInstruction("MOV", e.resultVar, "",
                                         Str(stmt.name)))

\* a variant of generateIf that places LABEL L1 after the else branch
generateIfLabelAfterElse(stmt, G) ==
    LET c == generateExpression(stmt.condition, G)
        G1 == emplace_back(c.G, TACInstruction("IF_FALSE", c.resultVar, "",
                                               "L1"))
        G2 == generateStatement(stmt.thenBranch, G1)
        G3 == emplace_back(G2, TACInstruction("GOTO", "", "", "L2"))
        G4 == IF stmt.elseBranch # nullptr
              THEN generateStatement(stmt.elseBranch, G3)
              ELSE G3
        G5 == emplace_back(G4, TACInstruction("LABEL", "", "", "L1"))
    IN  emplace_back(G5, TACInstruction("LABEL", "", "", "L2"))

generateIf(stmt, G) ==
    LET c == generateExpression(stmt.condition, G)
        G1 == emplace_back(c.G, TACInstruction("IF_FALSE", c.resultVar, "",
                                               "L1"))
        G2 == generateStatement(stmt.thenBranch, G1)
        G3 == emplace_back(G2, TACInstruction("GOTO", "", "", "L2"))
        G4 == emplace_back(G3, TACInstruction("LABEL", "", "", "L1"))
        G5 == IF stmt.elseBranch # nullptr
              THEN generateStatement(stmt.elseBranch, G4)
              ELSE G4
    IN  emplace_back(G5, TACInstruction("LABEL", "", "", "L2"))

\* the return that follows the RET only leaves generateStatement
generateReturn(stmt, G) ==
    IF stmt.value # nullptr
    THEN LET e == generateExpression(stmt.value, G)
         IN  emplace_back(e.G, TACInstruction("RET", e.resultVar, "", ""))
    ELSE emplace_back(G, TACInstruction("RET", "", "", ""))

\* a variant of generateBody that appends no RET after the loop
RECURSIVE generateBodyWithoutRet(_, _, _)
generateBodyWithoutRet(body, k, G) ==
    IF k > Len(body) THEN G
    ELSE LET G1 == generateStatement(body[k], G)
         IN  IF G1.code # <<>> /\ G1.code[Len(G1.code)].op = "RET"
             THEN G1
             ELSE generateBodyWithoutRet(body, k + 1, G1)

\* the loop over the body of a FunctionDeclaration, which leaves
\* generateStatement as soon as the last instruction is a RET, and the RET
\* appended after the loop
RECURSIVE generateBody(_, _, _)
generateBody(body, k, G) ==
    IF k > Len(body)
    THEN IF G.code = <<>> \/ G.code[Len(G.code)].op # "RET"
         THEN emplace_back(G, TACInstruction("RET", "", "", ""))
         ELSE G
    ELSE LET G1 == generateStatement(body[k], G)
         IN  IF G1.code # <<>> /\ G1.code[Len(G1.code)].op = "RET"
             THEN G1
             ELSE generateBody(body, k + 1, G1)

generateFunctionDeclaration(stmt, G) ==
    generateBody(stmt.body, 1,
                 emplace_back(G, TACInstruction("LABEL", "", "",
                                                Str(stmt.name))))

generateStatement(stmt, G) ==
    CASE stmt.kind = "VariableDeclaration" ->
            generateVariableDeclaration(stmt, G)
      [] stmt.kind = "Assignment" -> generateAssignment(stmt, G)
      [] stmt.kind = "If" -> generateIf(stmt, G)
      [] stmt.kind = "Block" -> generateStatements(stmt.statements, 1, G)
      [] stmt.kind = "Return" -> generateReturn(stmt, G)
      [] stmt.kind = "FunctionDeclaration" ->
            generateFunctionDeclaration(stmt, G)
      [] OTHER -> G

\* the generator state it leaves; the vector returned is a copy of its code
generateCode(node, G) ==
    IF node.kind = "Block" THEN generateStatements(node.statements, 1, G)
    ELSE generateStatement(node, G)

(***************************************************************************)
(* Compiler::writeAssemblyToFile: one line per instruction                 *)
(***************************************************************************)
writeAssemblyToFile(instructions) ==
    [k \in 1..Len(instructions) |->
        instructions[k].op \o " " \o instructions[k].arg1 \o " " \o
        instructions[k].arg2 \o " " \o instructions[k].result]

(***************************************************************************)
(* The input files.  A program is a sequence of at most MaxStmts of the    *)
(* statements below, separated by one space, as it stands, inside braces,  *)
(* or as the body of a function f, with or without a newline at the end.   *)
(***************************************************************************)
MaxStmts == 2

\* int x = 1;
StmtDeclX ==
    <<"i", "n", "t", " ", "x", " ", "=", " ", "1", ";">>

\* x = 2;
StmtAssignX ==
    <<"x", " ", "=", " ", "2", ";">>

\* int x = 2;
StmtRedeclX ==
    <<"i", "n", "t", " ", "x", " ", "=", " ", "2", ";">>

\* return 1;
StmtReturn ==
    <<"r", "e", "t", "u", "r", "n", " ", "1", ";">>

\* { int y = 3; return y; }
StmtBlockReturn ==
    <<"{", " ", "i", "n", "t", " ", "y", " ", "=", " ", "3", ";", " ", "r",
      "e", "t", "u", "r", "n", " ", "y", ";", " ", "}">>

\* if (x < 2) { x = 2; } else { x = 3; }
StmtIfElse ==
    <<"i", "f", " ", "(", "x", " ", "<", " ", "2", ")", " ", "{", " ", "x",
      " ", "=", " ", "2", ";", " ", "}", " ", "e", "l", "s", "e", " ", "{",
      " ", "x", " ", "=", " ", "3", ";", " ", "}">>

\* if (1) return 2;
StmtIfReturn ==
    <<"i", "f", " ", "(", "1", ")", " ", "r", "e", "t", "u", "r", "n", " ",
      "2", ";">>

\* int g() { int y = 1; }
StmtFunctionG ==
    <<"i", "n", "t", " ", "g", "(", ")", " ", "{", " ", "i", "n", "t", " ",
      "y", " ", "=", " ", "1", ";", " ", "}">>

\* float y = x + 1.5;
StmtFloatY ==
    <<"f", "l", "o", "a", "t", " ", "y", " ", "=", " ", "x", " ", "+", " ",
      "1", ".", "5", ";">>

\* if (1) int y = 1; else int y = 2;
StmtIfDecls ==
    <<"i", "f", " ", "(", "1", ")", " ", "i", "n", "t", " ", "y", " ", "=",
      " ", "1", ";", " ", "e", "l", "s", "e", " ", "i", "n", "t", " ", "y",
      " ", "=", " ", "2", ";">>

\* x = 1.5;
StmtAssignFloat ==
    <<"x", " ", "=", " ", "1", ".", "5", ";">>

\* if ("s") x = 2;
StmtIfString ==
    <<"i", "f", " ", "(", "\"", "s", "\"", ")", " ", "x", " ", "=", " ",
      "2", ";">>

Statements ==
    {StmtDeclX, StmtAssignX, StmtRedeclX, StmtReturn, StmtBlockReturn,
     StmtIfElse, StmtIfReturn, StmtFunctionG, StmtFloatY, StmtIfDecls,
     StmtAssignFloat, StmtIfString}

\* the sequences of at most n statements
RECURSIVE StatementLists(_)
StatementLists(n) ==
    IF n = 0 THEN {<<>>}
    ELSE StatementLists(n - 1) \cup
         {Append(l, s) : l \in {m \in StatementLists(n - 1) : Len(m) = n - 1},
                         s \in Statements}

\* the statements of l, each followed by one space
RECURSIVE Joined(_)
Joined(l) == IF l = <<>> THEN <<>> ELSE Head(l) \o <<" ">> \o Joined(Tail(l))

\* "int f() { "
FunctionHead ==
    <<"i", "n", "t", " ", "f", "(", ")", " ", "{", " ">>

Bare(l) == IF l = <<>> THEN <<>> ELSE SubSeq(Joined(l), 1, Len(Joined(l)) - 1)

Braced(l) == <<"{", " ">> \o Joined(l) \o <<"}">>

InFunction(l) == FunctionHead \o Joined(l) \o <<"}">>

Programs ==
    LET bodies == StatementLists(MaxStmts)
        texts == {Bare(l) : l \in bodies} \cup {Braced(l) : l \in bodies}
                 \cup {InFunction(l) : l \in bodies}
    IN  texts \cup {t \o <<"\n">> : t \in texts}

(***************************************************************************)
(* The input files for the type rules: a variable a of each type that can  *)
(* be declared, initialized ("T a = e;") or assigned ("{ T a; a = e; }")   *)
(* with an expression e over a literal of each kind and a itself.          *)
(***************************************************************************)
TypeInt == <<"i", "n", "t">>

TypeFloat == <<"f", "l", "o", "a", "t">>

TypeChar == <<"c", "h", "a", "r">>

TypeString == <<"s", "t", "d", ":", ":", "s", "t", "r", "i", "n", "g">>

DeclaredTypes == {TypeInt, TypeFloat, TypeChar, TypeString}

LeafInt == <<"1">>

LeafFloat == <<"2", ".", "5">>

LeafChar == <<"'", "c", "'">>

LeafString == <<"\"", "s", "\"">>

LeafA == <<"a">>

Leaves == {LeafInt, LeafFloat, LeafChar, LeafString, LeafA}

\* the spellings tokenToBinaryOp knows
OperatorTexts ==
    {<<"+">>, <<"-">>, <<"*">>, <<"/">>, <<"%">>, <<"<">>, <<">">>,
     <<"=", "=">>, <<"!", "=">>, <<"&", "&">>, <<"|", "|">>}

\* "l op r"
Infix(l, op, r) == l \o <<" ">> \o op \o <<" ">> \o r

Expressions ==
    Leaves
    \cup {Infix(l, op, r) : l \in Leaves, op \in OperatorTexts, r \in Leaves}
    \cup {Infix(Infix(l, op1, m), op2, r) :
             l \in {LeafInt, LeafChar}, m \in {LeafInt}, r \in {LeafInt, LeafChar},
             op1 \in {<<"&", "&">>, <<"|", "|">>, <<"+">>, <<"<">>},
             op2 \in {<<"&", "&">>, <<"|", "|">>, <<"+">>, <<"<">>}}

\* "T a = e;"
Initialization(T, e) == T \o <<" ", "a", " ", "=", " ">> \o e \o <<";">>

\* "{ T a; a = e; }"
Assignment(T, e) ==
    <<"{", " ">> \o T \o <<" ", "a", ";", " ", "a", " ", "=", " ">> \o e \o
    <<";", " ", "}">>

TypePrograms ==
    {Initialization(T, e) : T \in DeclaredTypes, e \in Expressions} \cup
    {Assignment(T, e) : T \in DeclaredTypes, e \in Expressions}

(***************************************************************************)
(* The run of main: Compiler::compile step by step; an exception ends it   *)
(* in main's catch clause, or in std::terminate.                           *)
(***************************************************************************)
NoException == [what |-> "", from |-> ""]

InitOn(inputs) ==
    /\ sourceCode \in inputs
    /\ dangling \in {"intact", "clobbered", "trapped"}
    /\ lexer = LexerNew
    /\ tokens = <<>>
    /\ parser = [tokens |-> <<>>, index |-> 0]
    /\ ast = nullptr
    /\ irGenerator = IRGeneratorNew
    /\ ir = <<>>
    /\ outFile = <<>>
    /\ thrown = NoException
    /\ cerr = ""
    /\ exitCode = -1
    /\ pc = "setSource"

Init == InitOn(Programs)

\* catch (const std::exception& e) in main.  e.what() is a C string: a
\* message that quotes a lexeme holding '\0' (a string literal cut off by the
\* end of the input) is printed up to that character only; no input file
\* below has such a message.
Caught(what, from) ==
    /\ thrown' = [what |-> what, from |-> from]
    /\ cerr' = "Compilation failed: " \o what \o "\n"
    /\ exitCode' = 1
    /\ pc' = "returned"

SetSource ==
    /\ pc = "setSource"
    /\ lexer' = setSource(lexer, sourceCode)
    /\ pc' = "tokenize"
    /\ UNCHANGED <<sourceCode, dangling, tokens, parser, ast, irGenerator, ir,
                   outFile, thrown, cerr, exitCode>>

\* auto tokens = lexer_->tokenize(); r is what tokenize left and returned
TokenizeReturned(r) ==
    /\ lexer' = r.L
    /\ IF r.err # ""
       THEN /\ Caught(r.err, "tokenize")
            /\ UNCHANGED tokens
       ELSE /\ tokens' = r.tokens
            /\ pc' = "setTokens"
            /\ UNCHANGED <<thrown, cerr, exitCode>>

Tokenize ==
    /\ pc = "tokenize"
    /\ TokenizeReturned(tokenize(lexer))
    /\ UNCHANGED <<sourceCode, dangling, parser, ast, irGenerator, ir,
                   outFile>>

SetTokens ==
    /\ pc = "setTokens"
    /\ parser' = [tokens |-> tokens, index |-> 0]
    /\ pc' = "parse"
    /\ UNCHANGED <<sourceCode, dangling, lexer, tokens, ast, irGenerator, ir,
                   outFile, thrown, cerr, exitCode>>

\* auto ast = parser_->parse(); r is what parse left and returned
ParseReturned(r) ==
    /\ parser' = [parser EXCEPT !.index = r.index]
    /\ ast' = r.node
    /\ IF r.terminated
       THEN /\ thrown' = [what |-> r.err, from |-> r.from]
            /\ pc' = "terminated"
            /\ UNCHANGED <<cerr, exitCode>>
       ELSE IF r.err # ""
       THEN Caught(r.err, r.from)
       ELSE /\ pc' = "generateCode"
            /\ UNCHANGED <<thrown, cerr, exitCode>>

Parse ==
    /\ pc = "parse"
    /\ ParseReturned(parse(parser.tokens, parser.index))
    /\ UNCHANGED <<sourceCode, dangling, lexer, tokens, irGenerator, ir,
                   outFile>>

GenerateCode ==
    /\ pc = "generateCode"
    /\ irGenerator' = generateCode(ast, irGenerator)
    /\ ir' = irGenerator'.code
    /\ pc' = "writeAssemblyToFile"
    /\ UNCHANGED <<sourceCode, dangling, lexer, tokens, parser, ast, outFile,
                   thrown, cerr, exitCode>>

WriteAssemblyToFile ==
    /\ pc = "writeAssemblyToFile"
    /\ outFile' = writeAssemblyToFile(ir)
    /\ exitCode' = 0
    /\ pc' = "returned"
    /\ UNCHANGED <<sourceCode, dangling, lexer, tokens, parser, ast,
                   irGenerator, ir, thrown, cerr>>

Next ==
    \/ SetSource
    \/ Tokenize
    \/ SetTokens
    \/ Parse
    \/ GenerateCode
    \/ WriteAssemblyToFile

Spec == Init /\ [][Next]_vars

InitTypes == InitOn(TypePrograms)

SpecTypes == InitTypes /\ [][Next]_vars

(***************************************************************************)
(* Compiler::compile as a function of the source text and of the generator *)
(* it runs on: what the run leaves when it starts from sourceCode = src.   *)
(***************************************************************************)
compile(src, G) ==
    LET t == tokenize(setSource(LexerNew, src))
        p == parse(t.tokens, 0)
    IN  IF t.err # "" THEN [err |-> t.err, ir |-> <<>>]
        ELSE IF p.err # "" THEN [err |-> p.err, ir |-> <<>>]
        ELSE [err |-> "", ir |-> generateCode(p.node, G).code]

(***************************************************************************)
(* Properties                                                              *)
(***************************************************************************)
Finished == pc \in {"returned", "terminated"}

\* C1: whenever tokenize() returns, the sequence it returned is non-empty and
\* its last token has kind EndOfFile, whatever the source ends with.
C1_LastTokenIsEndOfFile ==
    pc = "setTokens" =>
        /\ tokens # <<>>
        /\ tokens[Len(tokens)].type = "EndOfFile"

\* C2: a source of several statements not enclosed in braces is lowered
\* statement by statement, in source order: "int x = 1; x = 2;" gives
\* MOV 1 "" x, MOV 2 "" x, and in general the run emits what the same
\* statements emit inside braces.
C2_EveryStatementLowered ==
    (dangling = "intact" /\ Finished) =>
        /\ sourceCode = Bare(<<StmtDeclX, StmtAssignX>>) =>
              /\ exitCode = 0
              /\ ir = <<TACInstruction("MOV", "1", "", "x"),
                        TACInstruction("MOV", "2", "", "x")>>
        /\ \A l \in StatementLists(MaxStmts) :
              (/\ Len(l) >= 2
               /\ sourceCode = Bare(l)
               /\ compile(Braced(l), IRGeneratorNew).err = "") =>
                  /\ exitCode = 0
                  /\ ir = compile(Braced(l), IRGeneratorNew).ir

\* C3: compiling "int x = 1; int x = 2;" fails with "Variable 'x' is already
\* declared" and produces no IR.
C3_RedeclarationFails ==
    (/\ sourceCode = Bare(<<StmtDeclX, StmtRedeclX>>)
     /\ dangling = "intact"
     /\ Finished) =>
        /\ thrown.what = "Variable 'x' is already declared"
        /\ exitCode = 1
        /\ ir = <<>>
        /\ outFile = <<>>

\* C4: every exception thrown by the semantic check, wherever the offending
\* statement sits, is caught by main, which reports "Compilation failed:
\* <message>" and returns 1; the run never ends in std::terminate.
C4_SemanticErrorsAreCaught ==
    thrown.from = "checkSemantics" =>
        /\ pc = "returned"
        /\ exitCode = 1
        /\ cerr = "Compilation failed: " \o thrown.what \o "\n"

\* the statement parsed is there: parseStatement returned it
AfterParse ==
    /\ pc \in {"generateCode", "writeAssemblyToFile", "returned", "terminated"}
    /\ ast # nullptr

\* the nodes of a tree, parents before children
RECURSIVE Nodes(_)
RECURSIVE NodesOfAll(_)
NodesOfAll(nodes) ==
    IF nodes = <<>> THEN <<>>
    ELSE Nodes(Head(nodes)) \o NodesOfAll(Tail(nodes))

Nodes(node) ==
    CASE node.kind = "nullptr" -> <<>>
      [] node.kind = "Binary" ->
            <<node>> \o Nodes(node.left) \o Nodes(node.right)
      [] node.kind = "Block" -> <<node>> \o NodesOfAll(node.statements)
      [] node.kind = "VariableDeclaration" ->
            <<node>> \o Nodes(node.initializer)
      [] node.kind = "Assignment" -> <<node>> \o Nodes(node.value)
      [] node.kind = "Return" -> <<node>> \o Nodes(node.value)
      [] node.kind = "FunctionDeclaration" ->
            <<node>> \o NodesOfAll(node.body)
      [] node.kind = "If" ->
            <<node>> \o Nodes(node.condition) \o Nodes(node.thenBranch) \o
            Nodes(node.elseBranch)
      [] OTHER -> <<node>>

\* The declarations and the uses of names in a tree, in source order, as
\* <<"declare", name>> and <<"use", name>>: a declaration comes before the
\* uses in its initializer, the target of an assignment after the uses in
\* its value.
RECURSIVE ScopeEvents(_)
RECURSIVE ScopeEventsOfAll(_)
ScopeEventsOfAll(nodes) ==
    IF nodes = <<>> THEN <<>>
    ELSE ScopeEvents(Head(nodes)) \o ScopeEventsOfAll(Tail(nodes))

ScopeEvents(node) ==
    CASE node.kind = "Variable" -> << <<"use", Str(node.name)>> >>
      [] node.kind = "Binary" ->
            ScopeEvents(node.left) \o ScopeEvents(node.right)
      [] node.kind = "Block" -> ScopeEventsOfAll(node.statements)
      [] node.kind = "VariableDeclaration" ->
            << <<"declare", Str(node.name)>> >> \o ScopeEvents(node.initializer)
      [] node.kind = "Assignment" ->
            ScopeEvents(node.value) \o << <<"use", Str(node.name)>> >>
      [] node.kind = "Return" -> ScopeEvents(node.value)
      [] node.kind = "FunctionDeclaration" -> ScopeEventsOfAll(node.body)
      [] node.kind = "If" ->
            ScopeEvents(node.condition) \o ScopeEvents(node.thenBranch) \o
            ScopeEvents(node.elseBranch)
      [] OTHER -> <<>>

\* the first event that one scope for the whole tree forbids, as the message
\* it is reported with; "" when there is none
RECURSIVE FirstScopeError(_, _)
FirstScopeError(events, declared) ==
    IF events = <<>> THEN ""
    ELSE LET name == Head(events)[2]
         IN  IF Head(events)[1] = "declare"
             THEN IF name \in declared
                  THEN "Variable '" \o name \o "' is already declared"
                  ELSE FirstScopeError(Tail(events), declared \cup {name})
             ELSE IF name \notin declared
                  THEN "Variable '" \o name \o "' is not declared"
                  ELSE FirstScopeError(Tail(events), declared)

Names == {"x", "y"}

ScopeMessages ==
    {"Variable '" \o n \o "' is already declared" : n \in Names} \cup
    {"Variable '" \o n \o "' is not declared" : n \in Names}

\* C5: the semantic check has one scope for the whole tree.  A run accepts a
\* tree only if no declaration repeats a name declared earlier anywhere in it
\* (nested block, function body, other branch of an if) and no use or
\* assignment target precedes the declaration of its name; and an "already
\* declared" or "not declared" exception raised is the one of the first such
\* event in source order.  The four programs spelled out are a declaration
\* after a nested block, after a function body, in the other branch of an if,
\* and a use whose declaration follows.
C5_OneFlatScope ==
    /\ (AfterParse /\ Finished) =>
          LET first == FirstScopeError(ScopeEvents(ast), {})
          IN  /\ thrown.what = "" => first = ""
              /\ thrown.what \in ScopeMessages => thrown.what = first
    /\ (Finished /\ dangling = "intact") =>
          /\ sourceCode = Braced(<<StmtBlockReturn, StmtBlockReturn>>) =>
                thrown.what = "Variable 'y' is already declared"
          /\ sourceCode = Braced(<<StmtFunctionG, StmtBlockReturn>>) =>
                thrown.what = "Variable 'y' is already declared"
          /\ sourceCode = Bare(<<StmtIfDecls>>) =>
                thrown.what = "Variable 'y' is already declared"
          /\ sourceCode = Braced(<<StmtAssignX, StmtDeclX>>) =>
                thrown.what = "Variable 'x' is not declared"

C5_Witness ==
    /\ pc = "returned"
    /\ sourceCode = Braced(<<StmtFunctionG, StmtBlockReturn>>)
    /\ thrown = [what |-> "Variable 'y' is already declared",
                 from |-> "checkSemantics"]

\* an expression of each value type, with its type
ValueExpressions ==
    {<<"int", LeafInt>>, <<"float", LeafFloat>>, <<"char", LeafChar>>,
     <<"std::string", LeafString>>,
     <<"bool", Infix(LeafInt, <<"&", "&">>, LeafInt)>>,
     <<"bool", Infix(LeafChar, <<"|", "|">>, LeafString)>>,
     <<"float", Infix(LeafInt, <<"+">>, LeafFloat)>>,
     <<"int", Infix(LeafInt, <<"*">>, LeafInt)>>}

\* a value of type V may be stored in a variable of type T
Assignable(V, T) == V = T \/ (V = "int" /\ T = "float")

\* the exception expected of "T a = e;" with e of type V; "" when none
InitializationMessage(V, T) ==
    IF Assignable(V, T) THEN ""
    ELSE IF V = "float" /\ T = "int"
    THEN "Cannot assign float to int without explicit cast"
    ELSE "Type mismatch: Cannot initialize variable of type '" \o T \o
         "' with value of type '" \o V \o "'"

\* the exception expected of "a = e;" with a of type T and e of type V
AssignmentMessage(V, T) ==
    IF Assignable(V, T) THEN ""
    ELSE IF V = "float" /\ T = "int"
    THEN "Cannot assign float to int without explicit cast"
    ELSE "Type mismatch in assignment: Cannot assign " \o V \o " to " \o T

\* C6: initialization and assignment accept the same pairs.  For every
\* declared type T and every expression e of value type V among int, float,
\* char, std::string and bool, "T a = e;" and "{ T a; a = e; }" both compile
\* exactly when V = T or V = int and T = float; both are rejected with
\* "Cannot assign float to int without explicit cast" when V = float and
\* T = int, and with a "Type mismatch" message in every other case.
C6_SameAssignability ==
    (Finished /\ dangling = "intact") =>
        \A T \in DeclaredTypes, ve \in ValueExpressions :
            /\ sourceCode = Initialization(T, ve[2]) =>
                  /\ thrown.what = InitializationMessage(ve[1], Str(T))
                  /\ Assignable(ve[1], Str(T)) <=> exitCode = 0
            /\ sourceCode = Assignment(T, ve[2]) =>
                  /\ thrown.what = AssignmentMessage(ve[1], Str(T))
                  /\ Assignable(ve[1], Str(T)) <=> exitCode = 0

C6_Witness ==
    /\ pc = "returned"
    /\ dangling = "intact"
    /\ sourceCode = Assignment(TypeFloat, LeafInt)
    /\ thrown = NoException
    /\ exitCode = 0

\* the literals of the type programs, by their text
LeafType(value) ==
    CASE value = LeafInt -> "int"
      [] value = LeafFloat -> "float"
      [] value = LeafChar -> "char"
      [] value = LeafString -> "std::string"

\* the type of a Binary expression with operands of types L and R
BinaryType(op, L, R) ==
    IF op \in {"And", "Or"} THEN [err |-> "", type |-> "bool"]
    ELSE IF {L, R} = {"int", "float"} THEN [err |-> "", type |-> "float"]
    ELSE IF L = R THEN [err |-> "", type |-> L]
    ELSE [err |-> "Type mismatch in binary expression: " \o L \o " " \o
                  opToString(op) \o " " \o R,
          type |-> ""]

\* the type of an expression of a type program, where a has type T; the
\* failure of an operand is the failure of the expression
RECURSIVE TypeOf(_, _)
TypeOf(expr, T) ==
    IF expr.kind = "Literal" THEN [err |-> "", type |-> LeafType(expr.value)]
    ELSE IF expr.kind = "Variable" THEN [err |-> "", type |-> T]
    ELSE LET l == TypeOf(expr.left, T)
             r == TypeOf(expr.right, T)
         IN  IF l.err # "" THEN l
             ELSE IF r.err # "" THEN r
             ELSE BinaryType(expr.op, l.type, r.type)

\* in a type program: the declared type of a and the expression stored in it
DeclaredType ==
    IF ast.kind = "Block" THEN Str(ast.statements[1].type) ELSE Str(ast.type)

StoredExpression ==
    IF ast.kind = "Block" THEN ast.statements[2].value ELSE ast.initializer

\* C7: a Binary expression with operand types L and R has type bool when its
\* operator is And or Or, float when one of L and R is int and the other
\* float, L when L = R, and fails with "Type mismatch in binary expression"
\* otherwise; a comparison of two operands of one type T has type T.  Every
\* Binary node of the tree parsed is typed so by getType, and a run whose
\* stored expression fails so reports that failure; "char a = 'c' < 'c';"
\* compiles, "int a = 1 < 1;" compiles, "int a = 1 && 1;" does not.
C7_BinaryTypes ==
    /\ AfterParse =>
          /\ \A k \in 1..Len(Nodes(ast)) :
                LET b == Nodes(ast)[k]
                IN  b.kind = "Binary" =>
                        getType(b, [n \in {"a"} |-> DeclaredType]) =
                            TypeOf(b, DeclaredType)
          /\ (Finished /\ TypeOf(StoredExpression, DeclaredType).err # "") =>
                thrown.what = TypeOf(StoredExpression, DeclaredType).err
    /\ (Finished /\ dangling = "intact") =>
          /\ sourceCode = Initialization(TypeChar,
                              Infix(LeafChar, <<"<">>, LeafChar)) =>
                exitCode = 0
          /\ sourceCode = Initialization(TypeInt,
                              Infix(LeafInt, <<"=", "=">>, LeafInt)) =>
                exitCode = 0
          /\ sourceCode = Initialization(TypeInt,
                              Infix(LeafInt, <<"&", "&">>, LeafInt)) =>
                thrown.what = InitializationMessage("bool", "int")
          /\ sourceCode = Initialization(TypeInt,
                              Infix(LeafInt, <<"+">>, LeafChar)) =>
                thrown.what = "Type mismatch in binary expression: int + char"

C7_Witness ==
    /\ pc = "returned"
    /\ sourceCode = Initialization(TypeChar, Infix(LeafChar, <<"<">>, LeafChar))
    /\ exitCode = 0
    /\ ast.initializer.kind = "Binary"
    /\ ast.initializer.op = "LessThan"

\* the generator has run
AfterGenerateCode ==
    pc = "writeAssemblyToFile" \/ (pc = "returned" /\ exitCode = 0)

\* the generator states a statement of the run may have been lowered in:
\* what had been emitted is a prefix of ir, and no more temporaries had been
\* named than instructions were emitted
Contexts ==
    {[code |-> SubSeq(ir, 1, n), tempVarCount |-> t] :
        n \in 0..Len(ir), t \in 0..Len(ir)}

\* a generator that has emitted nothing and named t temporaries
Fresh(t) == [code |-> <<>>, tempVarCount |-> t]

\* what follows the first n elements of a sequence
After(seq, n) == SubSeq(seq, n + 1, Len(seq))

\* the instructions of an If statement lowered after t temporaries
IfInstructions(stmt, t) ==
    LET c == generateExpression(stmt.condition, Fresh(t))
        then == generateStatement(stmt.thenBranch,
                                  Fresh(c.G.tempVarCount))
        else == IF stmt.elseBranch = nullptr THEN <<>>
                ELSE generateStatement(stmt.elseBranch,
                                       Fresh(then.tempVarCount)).code
    IN  c.G.code \o
        <<TACInstruction("IF_FALSE", c.resultVar, "", "L1")>> \o
        then.code \o
        <<TACInstruction("GOTO", "", "", "L2"),
          TACInstruction("LABEL", "", "", "L1")>> \o
        else \o
        <<TACInstruction("LABEL", "", "", "L2")>>

\* C8: an If statement is lowered to the instructions of its condition,
\* IF_FALSE c "" L1 on the operand c they yield, the instructions of the then
\* branch, GOTO "" "" L2, LABEL "" "" L1, the instructions of the else branch
\* when there is one, and LABEL "" "" L2, in this order and nothing else;
\* without an else branch the two LABELs are adjacent.  This holds of every
\* If of the tree, wherever the generator stands, and of what the run emits
\* for "if (1) return 2;" and for "{ int x = 1; if (x < 2) { x = 2; } else
\* { x = 3; } }".
C8_IfLowering ==
    AfterGenerateCode =>
        /\ \A k \in 1..Len(Nodes(ast)), G \in Contexts :
              LET s == Nodes(ast)[k]
              IN  s.kind = "If" =>
                      generateStatement(s, G).code =
                          G.code \o IfInstructions(s, G.tempVarCount)
        /\ ast.kind = "If" => ir = IfInstructions(ast, 0)
        /\ (sourceCode = Bare(<<StmtIfReturn>>) /\ dangling = "intact") =>
              ir = <<TACInstruction("IF_FALSE", "1", "", "L1"),
                     TACInstruction("RET", "2", "", ""),
                     TACInstruction("GOTO", "", "", "L2"),
                     TACInstruction("LABEL", "", "", "L1"),
                     TACInstruction("LABEL", "", "", "L2")>>
        /\ (sourceCode = Braced(<<StmtDeclX, StmtIfElse>>) /\
            dangling = "intact") =>
              ir = <<TACInstruction("MOV", "1", "", "x"),
                     TACInstruction("<", "x", "2", "t0"),
                     TACInstruction("IF_FALSE", "t0", "", "L1"),
                     TACInstruction("MOV", "2", "", "x"),
                     TACInstruction("GOTO", "", "", "L2"),
                     TACInstruction("LABEL", "", "", "L1"),
                     TACInstruction("MOV", "3", "", "x"),
                     TACInstruction("LABEL", "", "", "L2")>>

C8_Witness ==
    /\ pc = "writeAssemblyToFile"
    /\ sourceCode = Braced(<<StmtDeclX, StmtIfElse>>)
    /\ ast.statements[2].kind = "If"
    /\ ast.statements[2].elseBranch # nullptr
    /\ Len(ir) = 8

\* C9: nothing is emitted for a statement that follows a Return in the
\* sequence of statements it stands in: when the root block holds a Return,
\* the run emits what the statements up to the first Return emit, and the
\* RET is the last instruction.
C9_NothingAfterReturn ==
    (AfterGenerateCode /\ ast.kind = "Block") =>
        \A k \in 1..Len(ast.statements) :
            (/\ ast.statements[k].kind = "Return"
             /\ \A j \in 1..(k - 1) : ast.statements[j].kind # "Return") =>
                /\ ir = generateStatements(SubSeq(ast.statements, 1, k), 1,
                                           IRGeneratorNew).code
                /\ ir[Len(ir)].op = "RET"

\* the instructions of a FunctionDeclaration lowered in the generator state G
FunctionInstructions(stmt, G) ==
    After(generateStatement(stmt, G).code, Len(G.code))

StmtDeclT0 ==
    <<"i", "n", "t", " ", "t", "0", " ", "=", " ", "1", " ", "+", " ", "2",
      ";">>

\* int x = t0 + 2 * 3;
StmtDeclXFromT0 ==
    <<"i", "n", "t", " ", "x", " ", "=", " ", "t", "0", " ", "+", " ", "2",
      " ", "*", " ", "3", ";">>

\* int L1() { }
StmtFunctionL1 ==
    <<"i", "n", "t", " ", "L", "1", "(", ")", " ", "{", " ", "}">>

\* return 1 + 'c';
StmtReturnMismatch ==
    <<"r", "e", "t", "u", "r", "n", " ", "1", " ", "+", " ", "'", "c", "'",
      ";">>

\* return x + 'c';
StmtReturnXMismatch ==
    <<"r", "e", "t", "u", "r", "n", " ", "x", " ", "+", " ", "'", "c", "'",
      ";">>

\* x = x * 2 + x;
StmtAssignXTemps ==
    <<"x", " ", "=", " ", "x", " ", "*", " ", "2", " ", "+", " ", "x", ";">>

\* return y;
StmtReturnY ==
    <<"r", "e", "t", "u", "r", "n", " ", "y", ";">>

\* if (x < 2) t0 = x + 1;
StmtIfAssignT0 ==
    <<"i", "f", " ", "(", "x", " ", "<", " ", "2", ")", " ", "t", "0", " ",
      "=", " ", "x", " ", "+", " ", "1", ";">>

GeneratorStatements ==
    {StmtDeclX, StmtIfReturn, StmtDeclT0, StmtDeclXFromT0, StmtFunctionL1,
     StmtReturnMismatch, StmtReturnXMismatch, StmtAssignXTemps, StmtReturnY,
     StmtIfAssignT0}

GeneratorPrograms ==
    {Bare(<<s>>) : s \in GeneratorStatements} \cup
    {Braced(<<s1, s2>>) : s1 \in GeneratorStatements,
                          s2 \in GeneratorStatements}

InitGenerator == InitOn(GeneratorPrograms)

SpecGenerator == InitGenerator /\ [][Next]_vars

\* the names getNewTempVar can have made up for the instructions of ir
TempNames == {"t" \o ToString(n) : n \in 0..Len(ir)}

\* an instruction generateExpression emits for a Binary expression
IsBinaryInstruction(i) ==
    i.op \notin {"MOV", "LABEL", "GOTO", "IF_FALSE", "RET"}

\* C11: in the IR of a run, a name tN that occurs in an instruction is the
\* result of exactly one instruction, this instruction is that of a binary
\* operator, and it comes before every instruction that has tN as arg1 or
\* arg2.
C11_TemporariesAssignedOnce ==
    AfterGenerateCode =>
        \A t \in TempNames :
            (\E k \in 1..Len(ir) : t \in {ir[k].arg1, ir[k].arg2, ir[k].result})
            =>
            \E d \in 1..Len(ir) :
                /\ ir[d].result = t
                /\ IsBinaryInstruction(ir[d])
                /\ \A k \in 1..Len(ir) :
                      /\ ir[k].result = t => k = d
                      /\ t \in {ir[k].arg1, ir[k].arg2} => d < k

\* how many instructions of code satisfy the test
Count(code, Test(_)) == Cardinality({k \in 1..Len(code) : Test(code[k])})

IsLabelL1(i) == i.op = "LABEL" /\ i.result = "L1"

IsLabelL2(i) == i.op = "LABEL" /\ i.result = "L2"

IsIfFalse(i) == i.op = "IF_FALSE"

\* C12: the IR emitted for an accepted tree holds as many LABEL instructions
\* with result L1 as LABEL instructions with result L2 as IF_FALSE
\* instructions.
C12_LabelsBalanced ==
    AfterGenerateCode =>
        /\ Count(ir, IsLabelL1) = Count(ir, IsIfFalse)
        /\ Count(ir, IsLabelL2) = Count(ir, IsIfFalse)

(***************************************************************************)
(* The input files for expressions: "return p1 op1 p2 ... opn pn+1;" with  *)
(* at most MaxOps operators; the k-th primary is the digit k.              *)
(***************************************************************************)
MaxOps == 3

Digits == <<"1", "2", "3", "4", "5", "6", "7", "8", "9">>

\* the spellings the lexer combines and tokenToBinaryOp does not know
RelationalEqTexts == {<<"<", "=">>, <<">", "=">>}

\* the sequences of at most n of the operators ops
RECURSIVE OperatorLists(_, _)
OperatorLists(ops, n) ==
    IF n = 0 THEN {<<>>}
    ELSE OperatorLists(ops, n - 1) \cup
         {Append(l, o) : l \in {m \in OperatorLists(ops, n - 1) :
                                    Len(m) = n - 1},
                         o \in ops}

\* "p1 op1 p2 ... opn pn+1" for the operators l
RECURSIVE Chain(_)
Chain(l) ==
    IF l = <<>> THEN <<Digits[1]>>
    ELSE Chain(SubSeq(l, 1, Len(l) - 1)) \o <<" ">> \o l[Len(l)] \o
         <<" ", Digits[Len(l) + 1]>>

\* "return e;"
ReturnOf(e) == <<"r", "e", "t", "u", "r", "n", " ">> \o e \o <<";">>

ExpressionPrograms ==
    {ReturnOf(Chain(l)) : l \in OperatorLists(OperatorTexts, MaxOps)} \cup
    {ReturnOf(Chain(<<o>>)) : o \in OperatorTexts \cup RelationalEqTexts} \cup
    {ReturnOf(Chain(<<o1, o2>>)) : o1 \in OperatorTexts \cup RelationalEqTexts,
                                   o2 \in OperatorTexts \cup RelationalEqTexts}

InitExpressions == InitOn(ExpressionPrograms)

SpecExpressions == InitExpressions /\ [][Next]_vars

\* the precedence of a binary operator
PrecedenceOf(op) ==
    CASE op \in {"Or", "And"} -> 3
      [] op \in {"Equal", "NotEqual"} -> 5
      [] op \in {"Add", "Subtract"} -> 10
      [] op \in {"LessThan", "GreaterThan"} -> 15
      [] op \in {"Multiply", "Divide", "Modulo"} -> 20

\* the leaves and the operators of an expression, from left to right
RECURSIVE InOrder(_)
InOrder(expr) ==
    IF expr.kind = "Binary"
    THEN InOrder(expr.left) \o <<opToString(expr.op)>> \o InOrder(expr.right)
    ELSE IF expr.kind = "Literal" THEN <<Str(expr.value)>>
    ELSE <<Str(expr.name)>>

\* the lexemes of the tokens between "return" and ";"
ExpressionItems == [k \in 1..(Len(tokens) - 2) |-> Str(tokens[k + 1].value)]

\* the tokens are those of Chain(l) for operators l that tokenToBinaryOp knows
IsOperatorChain ==
    /\ sourceCode \in ExpressionPrograms
    /\ \A k \in 1..Len(tokens) : tokens[k].value \notin RelationalEqTexts

\* the k-th primary of a chain, as the parser builds it
Leaf(k) == LiteralExpression(<<Digits[k]>>)

\* each operator of the tree binds tighter than its parent if it stands to
\* the right of it, and at least as tight if it stands to the left
BindsByPrecedence(expr) ==
    \A k \in 1..Len(Nodes(expr)) :
        LET b == Nodes(expr)[k]
        IN  b.kind = "Binary" =>
                /\ b.left.kind = "Binary" =>
                      PrecedenceOf(b.left.op) >= PrecedenceOf(b.op)
                /\ b.right.kind = "Binary" =>
                      PrecedenceOf(b.right.op) > PrecedenceOf(b.op)

\* C13: for every sequence p1 op1 p2 ... opn pn+1 of primaries and operators
\* of precedence 3 (||, &&), 5 (==, !=), 10 (+, -), 15 (<, >) and 20 (*, /,
\* %), parseExpression consumes the whole sequence and returns the tree
\* whose leaves and operators read from left to right are the input, in
\* which an operator of higher precedence binds tighter and operators of
\* equal precedence group to the left; "a op1 b op2 c" is (a op1 b) op2 c
\* when the precedence of op1 is at least that of op2, and a op1 (b op2 c)
\* otherwise.
C13_PrecedenceAndAssociativity ==
    (/\ IsOperatorChain
     /\ dangling = "intact"
     /\ pc \notin {"setSource", "tokenize", "setTokens", "parse"}) =>
        /\ thrown = NoException
        /\ parser.index = Len(tokens)
        /\ ast.kind = "Return"
        /\ InOrder(ast.value) = ExpressionItems
        /\ BindsByPrecedence(ast.value)
        /\ Len(tokens) = 7 =>
              LET op1 == tokenToBinaryOp(tokens[3])
                  op2 == tokenToBinaryOp(tokens[5])
              IN  ast.value =
                      IF PrecedenceOf(op1) >= PrecedenceOf(op2)
                      THEN BinaryExpression(
                               BinaryExpression(Leaf(1), op1, Leaf(2)),
                               op2, Leaf(3))
                      ELSE BinaryExpression(
                               Leaf(1), op1,
                               BinaryExpression(Leaf(2), op2, Leaf(3)))

\* return 1 + 2 * 3 - 4; is (1 + (2 * 3)) - 4
C13_Witness ==
    /\ pc = "returned"
    /\ exitCode = 0
    /\ sourceCode = ReturnOf(Chain(<< <<"+">>, <<"*">>, <<"-">> >>))
    /\ ast.value =
          BinaryExpression(
              BinaryExpression(
                  Leaf(1), "Add",
                  BinaryExpression(Leaf(2), "Multiply", Leaf(3))),
              "Subtract", Leaf(4))

\* the places of the source where <= or >= starts
RelationalEqPlaces ==
    {k \in 1..(Len(sourceCode) - 1) :
        <<sourceCode[k], sourceCode[k + 1]>> \in RelationalEqTexts}

\* the first token spelled <= or >=
FirstRelationalEq ==
    tokens[CHOOSE k \in 1..Len(tokens) :
               /\ tokens[k].value \in RelationalEqTexts
               /\ \A j \in 1..(k - 1) : tokens[j].value \notin RelationalEqTexts]

\* C18: the lexer makes one Operator token of <= and of >=, getPrecedence
\* gives it precedence 15, and parsing an expression that has it in operator
\* position fails with "Unknown binary operator: <the token>": no tree is
\* built, so no Binary node, and no code is generated.
C18_RelationalEqRejected ==
    (/\ sourceCode \in ExpressionPrograms
     /\ RelationalEqPlaces # {}
     /\ pc \notin {"setSource", "tokenize"}) =>
        /\ \A p \in RelationalEqPlaces :
              \E k \in 1..Len(tokens) :
                  /\ tokens[k] = Token("Operator",
                                       <<sourceCode[p], sourceCode[p + 1]>>,
                                       1, p)
                  /\ getPrecedence(tokens[k]) = 15
        /\ (dangling = "intact" /\ pc \notin {"setTokens", "parse"}) =>
              /\ pc = "returned"
              /\ exitCode = 1
              /\ thrown.what = "Unknown binary operator: " \o
                               tokenToString(FirstRelationalEq)
              /\ cerr = "Compilation failed: " \o thrown.what \o "\n"
              /\ ast = nullptr
              /\ ir = <<>>
              /\ outFile = <<>>

\* return 1 + 2 <= 3; fails at the token <= of column 14
C18_Witness ==
    /\ pc = "returned"
    /\ exitCode = 1
    /\ sourceCode = ReturnOf(Chain(<< <<"+">>, <<"<", "=">> >>))
    /\ thrown.what =
          "Unknown binary operator: Token(Operator, \"<=\", Line: 1, Column: 14)"

(***************************************************************************)
(* The input files for the lexer: "return e;" for the expressions below,   *)
(* after nothing or a comment, and before nothing, a comment or a line     *)
(* break.                                                                  *)
(***************************************************************************)
\* 1
ExprNumber ==
    <<"1">>

\* 1.5
ExprFloat ==
    <<"1", ".", "5">>

\* x
ExprVariable ==
    <<"x">>

\* "a<line break>b"
ExprStringTwoLines ==
    <<"\"", "a", "\n", "b", "\"">>

\* "a\"b"
ExprStringEscapedQuote ==
    <<"\"", "a", "\\", "\"", "b", "\"">>

\* "ab
ExprStringCutOff ==
    <<"\"", "a", "b">>

\* 'c'
ExprChar ==
    <<"'", "c", "'">>

\* '\''
ExprCharEscapedQuote ==
    <<"'", "\\", "'", "'">>

\* 1 +/*a*/ 2
ExprCommentAfterOperator ==
    <<"1", " ", "+", "/", "*", "a", "*", "/", " ", "2">>

\* 1 /*a*//*b*/ 2
ExprTwoComments ==
    <<"1", " ", "/", "*", "a", "*", "/", "/", "*", "b", "*", "/", " ", "2">>

\* 1 /* a<line break>b */ + 2
ExprBlockComment ==
    <<"1", " ", "/", "*", " ", "a", "\n", "b", " ", "*", "/", " ", "+", " ",
      "2">>

\* 1 // c<line break>+ 2
ExprLineComment ==
    <<"1", " ", "/", "/", " ", "c", "\n", "+", " ", "2">>

LexerExpressions ==
    {ExprNumber,
     ExprFloat,
     ExprVariable,
     ExprStringTwoLines,
     ExprStringEscapedQuote,
     ExprStringCutOff,
     ExprChar,
     ExprCharEscapedQuote,
     ExprCommentAfterOperator,
     ExprTwoComments,
     ExprBlockComment,
     ExprLineComment}

\* nothing, a block comment of two lines, a line comment
Leads ==
    {<<>>,
     <<"/", "*", " ", "a", "\n", "b", " ", "*", "/", " ">>,
     <<"/", "/", " ", "c", "\n">>}

\* nothing, a line comment, a line break
Trails ==
    {<<>>,
     <<" ", "/", "/", " ", "e", "n", "d">>,
     <<"\n">>}

LexerPrograms ==
    {lead \o ReturnOf(e) \o trail :
        lead \in Leads, e \in LexerExpressions, trail \in Trails}

InitLexer == InitOn(LexerPrograms)

SpecLexer == InitLexer /\ [][Next]_vars

\* the tokens tokenize() keeps, each with the index of the first and of the
\* last character nextToken consumed for it
RECURSIVE Spans(_)
Spans(L) ==
    IF L.index < Len(L.source)
    THEN LET start == skipComment(skipWhitespace(L))
             r == nextToken(L)
         IN  IF r.err # "" THEN <<>>
             ELSE (IF r.token.type = "Unknown" THEN <<>>
                   ELSE <<[first |-> start.index + 1, last |-> r.L.index,
                           token |-> r.token]>>) \o
                  (IF r.token.type = "EndOfFile" THEN <<>> ELSE Spans(r.L))
    ELSE <<>>

\* the line of the i-th character of src: one more than the line breaks
\* before it
LineAt(src, i) == 1 + Cardinality({k \in 1..(i - 1) : src[k] = "\n"})

\* the column of the i-th character of src: its distance from the last line
\* break before it
ColumnAt(src, i) ==
    LET breaks == {k \in 1..(i - 1) : src[k] = "\n"}
    IN  IF breaks = {} THEN i
        ELSE i - (CHOOSE k \in breaks : \A j \in breaks : j <= k)

AfterTokenize == pc \notin {"setSource", "tokenize"} /\ tokens # <<>>

\* C14: the tokens of one line have strictly increasing columns, and the
\* line and column of a token are those of the first character of its
\* lexeme, also when a string literal or a comment spans a line break.
C14_PositionOfFirstCharacter ==
    AfterTokenize =>
        LET spans == Spans(setSource(LexerNew, sourceCode))
        IN  /\ \A i \in 1..Len(tokens) : \A j \in (i + 1)..Len(tokens) :
                  tokens[i].line = tokens[j].line =>
                      tokens[i].column < tokens[j].column
            /\ \A k \in 1..Len(spans) :
                  /\ spans[k].token = tokens[k]
                  /\ tokens[k].line = LineAt(sourceCode, spans[k].first)
                  /\ tokens[k].column = ColumnAt(sourceCode, spans[k].first)

\* C15: the text toString() gives for a Literal or Variable expression of the
\* parsed tree is tokenized without failure, and the first token has the
\* lexeme of the token the expression was built from.
C15_ToStringTokenizesBack ==
    AfterParse =>
        \A k \in 1..Len(Nodes(ast)) :
            LET expr == Nodes(ast)[k]
            IN  /\ expr.kind = "Literal" =>
                      LET r == tokenize(setSource(LexerNew,
                                            LiteralExpression_toString(expr)))
                      IN  /\ r.err = ""
                          /\ r.tokens # <<>>
                          /\ r.tokens[1].value = expr.value
                /\ expr.kind = "Variable" =>
                      LET r == tokenize(setSource(LexerNew,
                                            VariableExpression_toString(expr)))
                      IN  /\ r.err = ""
                          /\ r.tokens # <<>>
                          /\ r.tokens[1].value = expr.name

\* the source with every comment replaced by a space, from character i on;
\* string and character literals are copied
RECURSIVE StripComments(_, _)
StripComments(src, i) ==
    LET n == Len(src)
        at(k) == IF k <= n THEN src[k] ELSE NUL
        \* the quotes after i that are not part of \"
        closing == {k \in (i + 1)..n :
                       src[k] = "\"" /\ ~(src[k - 1] = "\\" /\ k - 1 > i)}
        stringEnd == IF closing = {} THEN n
                     ELSE CHOOSE k \in closing : \A j \in closing : k <= j
        charEnd == IF at(i + 1) = "\\" /\ at(i + 2) = "'" THEN i + 3 ELSE i + 2
        breaks == {k \in i..n : src[k] = "\n"}
        lineEnd == IF breaks = {} THEN n + 1
                   ELSE CHOOSE k \in breaks : \A j \in breaks : k <= j
        ends == {k \in (i + 2)..(n - 1) : src[k] = "*" /\ src[k + 1] = "/"}
        blockEnd == IF ends = {} THEN n + 1
                    ELSE 2 + CHOOSE k \in ends : \A j \in ends : k <= j
        copied(to) == SubSeq(src, i, IF to <= n THEN to ELSE n) \o
                      StripComments(src, to + 1)
    IN  IF i > n THEN <<>>
        ELSE IF src[i] = "\"" THEN copied(stringEnd)
        ELSE IF src[i] = "'" THEN copied(charEnd)
        ELSE IF src[i] = "/" /\ at(i + 1) = "/"
             THEN <<" ">> \o StripComments(src, lineEnd)
        ELSE IF src[i] = "/" /\ at(i + 1) = "*"
             THEN <<" ">> \o StripComments(src, blockEnd)
        ELSE <<src[i]>> \o StripComments(src, i + 1)

\* the kind and the lexeme of each token
Pairs(toks) == [k \in 1..Len(toks) |-> <<toks[k].type, toks[k].value>>]

\* C16: a comment makes no token: tokenize() returns the kinds and lexemes
\* it returns for the source with every // and /* */ comment replaced by a
\* space, also when a comment follows a comment or an operator character
\* directly.
C16_CommentsMakeNoTokens ==
    AfterTokenize =>
        LET r == tokenize(setSource(LexerNew, StripComments(sourceCode, 1)))
        IN  /\ r.err = ""
            /\ Pairs(tokens) = Pairs(r.tokens)

\* C19: the lexeme of a token is the source text consumed for it, character
\* for character: a string literal with both quotes and every \", a
\* character literal with both quotes and all between them, also for '\''
\* and for a string literal cut off by the end of the input.
C19_LexemeIsConsumedText ==
    AfterTokenize =>
        LET spans == Spans(setSource(LexerNew, sourceCode))
        IN  \A k \in 1..Len(spans) :
                /\ spans[k].token = tokens[k]
                /\ tokens[k].value =
                      SubSeq(sourceCode, spans[k].first, spans[k].last)

\* parse() returned a tree: no exception left parseStatement or checkSemantics
ParseSucceeded ==
    /\ pc \in {"generateCode", "writeAssemblyToFile", "returned"}
    /\ thrown = NoException
    /\ ast # nullptr

\* the symbol table checkSemantics leaves for the parsed tree
SymbolsOfTree == checkSemantics(ast, SymbolTableNew).symbols

\* C17: when parse() succeeds, every Binary expression of the tree, the
\* value of a Return included, has operands of equal types or of types int
\* and float, or the operator && or ||, and every Variable in it is
\* declared: getType does not fail on it.
C17_AcceptedBinariesAreTyped ==
    ParseSucceeded =>
        \A k \in 1..Len(Nodes(ast)) :
            Nodes(ast)[k].kind = "Binary" =>
                getType(Nodes(ast)[k], SymbolsOfTree).err = ""

\* the names the program declares, assigns or reads as variables
ProgramVariables ==
    {Str(Nodes(ast)[k].name) :
        k \in {j \in 1..Len(Nodes(ast)) :
                  Nodes(ast)[j].kind \in
                      {"VariableDeclaration", "Assignment", "Variable"}}}

\* C20: no instruction of a binary operator has a variable of the program as
\* its result: the names getNewTempVar makes up are not names of the
\* program, also when the source declares t0.
C20_TemporariesAreNotVariables ==
    AfterGenerateCode =>
        \A k \in 1..Len(ir) :
            IsBinaryInstruction(ir[k]) => ir[k].result \notin ProgramVariables

(***************************************************************************)
(* A caller that calls generateCode(ast) once more on the same IRGenerator *)
(* before the code is written: the members code and tempVarCount are what  *)
(* the first call left.                                                    *)
(***************************************************************************)
GenerateCodeAgain ==
    /\ pc = "writeAssemblyToFile"
    /\ irGenerator = generateCode(ast, IRGeneratorNew)
    /\ irGenerator' = generateCode(ast, irGenerator)
    /\ ir' = irGenerator'.code
    /\ UNCHANGED <<sourceCode, dangling, lexer, tokens, parser, ast, outFile,
                   thrown, cerr, exitCode, pc>>

NextReuse ==
    \/ Next
    \/ GenerateCodeAgain

SpecReuse == Init /\ [][NextReuse]_vars

\* C22: what generateCode(ast) returns depends on ast only: the second call
\* on the same IRGenerator returns the instructions a fresh IRGenerator
\* returns, none left from the first call, temporaries numbered from t0.
C22_GenerateCodeDependsOnAstOnly ==
    pc = "writeAssemblyToFile" =>
        ir = generateCode(ast, IRGeneratorNew).code

(***************************************************************************)
(* Compiler::compile with the loop of Lexer::tokenize taken one iteration  *)
(* at a time: lexer is the state of the Lexer at the head of the loop and  *)
(* tokens the vector it has filled so far.  The input files are those of   *)
(* the lexer and the ones below, most of which end before a comment, a     *)
(* literal, a block, a function or an expression is closed.                *)
(***************************************************************************)
\* (the empty file)
SrcEmpty ==
    <<>>

\* /* a
SrcOpenBlockComment ==
    <<"/", "*", " ", "a">>

\* return 1; /* a
SrcOpenBlockCommentAfter ==
    <<"r", "e", "t", "u", "r", "n", " ", "1", ";", " ", "/", "*", " ", "a">>

\* // c
SrcLineCommentOnly ==
    <<"/", "/", " ", "c">>

\* x = "ab
SrcOpenString ==
    <<"x", " ", "=", " ", "\"", "a", "b">>

\* 'a
SrcOpenChar ==
    <<"'", "a">>

\* '
SrcQuoteOnly ==
    <<"'">>

\* '\'
SrcOpenEscapedChar ==
    <<"'", "\\", "'">>

\* { int x = 1;
SrcOpenBlock ==
    <<"{", " ", "i", "n", "t", " ", "x", " ", "=", " ", "1", ";">>

\* { { int x = 1; }
SrcOpenOuterBlock ==
    <<"{", " ", "{", " ", "i", "n", "t", " ", "x", " ", "=", " ", "1", ";",
      " ", "}">>

\* {
SrcBraceOnly ==
    <<"{">>

\* int f() { return 1;
SrcOpenFunctionBody ==
    <<"i", "n", "t", " ", "f", "(", ")", " ", "{", " ", "r", "e", "t", "u",
      "r", "n", " ", "1", ";">>

\* int f(int a,
SrcOpenParameters ==
    <<"i", "n", "t", " ", "f", "(", "i", "n", "t", " ", "a", ",">>

\* if (1) {
SrcOpenIf ==
    <<"i", "f", " ", "(", "1", ")", " ", "{">>

\* x = 1 +
SrcOpenExpression ==
    <<"x", " ", "=", " ", "1", " ", "+">>

\* { int x = 1; } @ #
SrcUnknownCharacters ==
    <<"{", " ", "i", "n", "t", " ", "x", " ", "=", " ", "1", ";", " ", "}",
      " ", "@", " ", "#">>

\* { int x = 1; }
SrcClosedBlock ==
    <<"{", " ", "i", "n", "t", " ", "x", " ", "=", " ", "1", ";", " ", "}">>

\* int f(int a, int b) { return 1; }
SrcClosedFunction ==
    <<"i", "n", "t", " ", "f", "(", "i", "n", "t", " ", "a", ",", " ", "i",
      "n", "t", " ", "b", ")", " ", "{", " ", "r", "e", "t", "u", "r", "n",
      " ", "1", ";", " ", "}">>

OpenPrograms ==
    {SrcEmpty,
     SrcOpenBlockComment,
     SrcOpenBlockCommentAfter,
     SrcLineCommentOnly,
     SrcOpenString,
     SrcOpenChar,
     SrcQuoteOnly,
     SrcOpenEscapedChar,
     SrcOpenBlock,
     SrcOpenOuterBlock,
     SrcBraceOnly,
     SrcOpenFunctionBody,
     SrcOpenParameters,
     SrcOpenIf,
     SrcOpenExpression,
     SrcUnknownCharacters,
     SrcClosedBlock,
     SrcClosedFunction}

FrontEndPrograms == LexerPrograms \cup OpenPrograms

InitFrontEnd == InitOn(FrontEndPrograms)

\* the body of while (index < source.size()); r is what nextToken left and
\* returned
TokenizeIterationReturned(r) ==
    /\ lexer' = r.L
    /\ IF r.err # ""
       THEN /\ Caught(r.err, "tokenize")
            /\ UNCHANGED tokens
       ELSE /\ tokens' = IF r.token.type # "Unknown"
                         THEN Append(tokens, r.token)
                         ELSE tokens
            /\ pc' = IF r.token.type = "EndOfFile" THEN "setTokens"
                     ELSE "tokenize"
            /\ UNCHANGED <<thrown, cerr, exitCode>>

TokenizeIteration ==
    /\ pc = "tokenize"
    /\ lexer.index < Len(lexer.source)
    /\ TokenizeIterationReturned(nextToken(lexer))
    /\ UNCHANGED <<sourceCode, dangling, parser, ast, irGenerator, ir,
                   outFile>>

\* the loop condition is false: return tokens
TokenizeReturn ==
    /\ pc = "tokenize"
    /\ ~(lexer.index < Len(lexer.source))
    /\ pc' = "setTokens"
    /\ UNCHANGED <<sourceCode, dangling, lexer, tokens, parser, ast,
                   irGenerator, ir, outFile, thrown, cerr, exitCode>>

NextFrontEnd ==
    \/ SetSource
    \/ TokenizeIteration
    \/ TokenizeReturn
    \/ SetTokens
    \/ Parse
    \/ GenerateCode
    \/ WriteAssemblyToFile

\* The process is not stopped from outside: a step that can be taken is
\* taken.  For the three steps that call into the lexer, the parser and the
\* generator this is weak fairness with the condition of the step, the value
\* of pc and the loop condition, in the place of ENABLED: the step is total
\* under its condition.
FairTokenizeIteration ==
    \/ []<>~(pc = "tokenize" /\ lexer.index < Len(lexer.source))
    \/ []<><<TokenizeIteration>>_vars

FairParse == []<>(pc # "parse") \/ []<><<Parse>>_vars

FairGenerateCode == []<>(pc # "generateCode") \/ []<><<GenerateCode>>_vars

Fairness ==
    /\ WF_vars(SetSource)
    /\ FairTokenizeIteration
    /\ WF_vars(TokenizeReturn)
    /\ WF_vars(SetTokens)
    /\ FairParse
    /\ FairGenerateCode
    /\ WF_vars(WriteAssemblyToFile)

SpecFrontEnd == InitFrontEnd /\ [][NextFrontEnd]_vars /\ Fairness

\* the precedences parseBinaryExpression is called with: 0, and one more than
\* that of an operator
Precedences == {0, 4, 6, 11, 16, 21}

\* at the head of the loop of tokenize, the call of nextToken consumes a
\* character, returns EndOfFile or throws
LexerProgress ==
    (pc = "tokenize" /\ lexer.index < Len(lexer.source)) =>
        LET r == nextToken(lexer)
        IN  \/ r.err # ""
            \/ r.token.type = "EndOfFile"
            \/ r.L.index > lexer.index

\* a parse function that returns from the position index has consumed a token
Consumes(r, index) ==
    r.err = "" => (r.index > index /\ r.index <= Len(tokens))

\* what the loops of the parser call in an iteration consumes a token or
\* throws, at whatever position of the tokens the iteration starts: a
\* statement in a block or a function body, a parameter, an operator and its
\* right operand
ParserProgress ==
    pc \notin {"setSource", "tokenize"} =>
        \A index \in 0..Len(tokens) :
            /\ Consumes(parseStatement(tokens, index), index)
            /\ Consumes(parsePrimaryExpression(tokens, index), index)
            /\ \A precedence \in Precedences :
                  Consumes(parseBinaryExpression(tokens, index, precedence),
                           index)
            /\ ~matchValue(tokens, index, "Separator", ")") =>
                  Consumes(parseParameters(tokens, index, <<>>), index)

\* tokenize() and parse() have returned or thrown
FrontEndDone == pc \notin {"setSource", "tokenize", "setTokens", "parse"}

\* parse() has ended with a tree or with an error
ParseEnded == FrontEndDone => (ast # nullptr \/ thrown # NoException)

\* C21: the front end terminates on every input: each iteration of the loop
\* of tokenize consumes a character, ends the loop with EndOfFile or throws,
\* each iteration of a loop of the parser consumes a token or throws, and
\* every run gets to the end of parse(), with a tree or an error, also when
\* a comment, a string or character literal, a block or a function body is
\* not closed.
C21_FrontEndTerminates ==
    /\ [](LexerProgress /\ ParserProgress /\ ParseEnded)
    /\ [][(pc = "tokenize" /\ pc' = "tokenize") =>
              lexer'.index > lexer.index]_vars
    /\ <>FrontEndDone

\* int f() { return 1; with no closing brace ends with the error of the
\* statement parsed at the end of the tokens
C21_Witness ==
    /\ sourceCode = SrcOpenFunctionBody
    /\ dangling = "intact"
    /\ pc = "returned"
    /\ lexer.index = Len(sourceCode)
    /\ thrown.what =
          "Unexpected token: Token(EndOfFile, \"\", Line: 0, Column: 0)"

====
